---- MODULE Spec2Model ----
(***************************************************************************)
(* Wire protocol of the BK168xB power supplies: the fixed-width numeric    *)
(* field codec (ArgFormat), command serialization (send_command) and       *)
(* response deserialization (get_response).                                *)
(*                                                                         *)
(* Bytes are modelled as their ASCII codes.  f32 values are modelled       *)
(* bit-exactly as sign / mantissa / exponent triples: a finite value is    *)
(* (-1)^s * m * 2^e with m < 2^24, normalised so that m >= 2^23 unless the *)
(* value is zero or subnormal (e = -149).                                  *)
(***************************************************************************)
EXTENDS Integers, Sequences, FiniteSets, TLC

VARIABLES
    pc,        \* position of the modelled call sequence
    fmt,       \* ArgFormat under test (codec specification)
    val,       \* f32 handed to serialize_arg (codec specification)
    src,       \* how val was drawn: nearest f32 to num/den, moved by ulp
    raw,       \* byte slice handed to parse (codec specification)
    sink,      \* bytes held by the io::Write sink
    before,    \* bytes the sink held before the call
    enc,       \* result of the encode-side call
    dec,       \* result of the decode-side call
    command,   \* command handed to send_command
    variant,   \* SupplyVariant handed to send_command / get_response
    failAt,    \* index of the write the sink answers with an error (0: none)
    writeErr,  \* io::ErrorKind of that error ("none": no error)
    writes,    \* number of writes the sink was asked for
    source,    \* bytes still held by the io::Read source
    rtype,     \* response type R of get_response
    deliver,   \* most bytes the source hands over in one read
    ioErr,     \* io::ErrorKind the source's read reports ("none": no error)
    reads,     \* number of read requests issued to the source
    got,       \* number of bytes the last read handed over
    readBuf,   \* the bytes the last read handed over
    detected,  \* result of variant_for_max_voltage
    asked,     \* size of the buffer the last read was asked to fill
    session,   \* frames the source was loaded with, and the bytes behind them
    results    \* outcomes of the get_response calls made so far

vars == <<pc, fmt, val, src, raw, sink, before, enc, dec, command, variant,
          failAt, writeErr, writes, source, rtype, deliver, ioErr, reads, got,
          readBuf, detected,
          asked,
          session,
          results>>

----------------------------------------------------------------------------
(* f32 arithmetic                                                          *)

MantBits == 24
MinExp == -149
MaxExp == 104

Pow2(n) == 2 ^ n
Pow10(n) == 10 ^ n

Fin(s, m, e) == [k |-> "fin", s |-> s, m |-> m, e |-> e]
NaN == [k |-> "nan", s |-> 0, m |-> 0, e |-> 0]
Inf(s) == [k |-> "inf", s |-> s, m |-> 0, e |-> 0]
Zero(s) == Fin(s, 0, MinExp)

\* Nearest f32 (ties to even) to the exact value (-1)^s * p * 2^e, 0 <= p < 2^31.
RoundToF32(s, p, e) ==
    IF p = 0 THEN Zero(s)
    ELSE IF p >= Pow2(MantBits) THEN
        LET sh == CHOOSE i \in 1..7 :
                      /\ p \div Pow2(i) < Pow2(MantBits)
                      /\ p \div Pow2(i - 1) >= Pow2(MantBits)
            q == p \div Pow2(sh)
            r == p % Pow2(sh)
            up == 2 * r > Pow2(sh) \/ (2 * r = Pow2(sh) /\ q % 2 = 1)
            q1 == IF up THEN q + 1 ELSE q
            m1 == IF q1 = Pow2(MantBits) THEN Pow2(MantBits - 1) ELSE q1
            e1 == IF q1 = Pow2(MantBits) THEN e + sh + 1 ELSE e + sh
        IN  IF e1 > MaxExp THEN Inf(s) ELSE Fin(s, m1, e1)
    ELSE
        LET sh == CHOOSE i \in 0..(MantBits - 1) :
                      /\ i <= e - MinExp
                      /\ (p * Pow2(i) >= Pow2(MantBits - 1) \/ i = e - MinExp
                          \/ i = MantBits - 1)
                      /\ \A j \in 0..(i - 1) :
                            p * Pow2(j) < Pow2(MantBits - 1)
        IN  IF e > MaxExp THEN Inf(s) ELSE Fin(s, p * Pow2(sh), e - sh)

\* usize as f32, exact for n < 2^24.
IntToF32(n) == RoundToF32(0, n, 0)

RECURSIVE DivStep(_, _, _, _)
\* Long division: n/d = (q + r/d) * 2^e with r < d; stops at a 24-bit quotient
\* and rounds to nearest, ties to even.
DivStep(q, r, e, d) ==
    IF q >= Pow2(MantBits - 1) THEN
        LET up == 2 * r > d \/ (2 * r = d /\ q % 2 = 1)
            q1 == IF up THEN q + 1 ELSE q
        IN  IF q1 = Pow2(MantBits)
            THEN Fin(0, Pow2(MantBits - 1), e + 1)
            ELSE Fin(0, q1, e)
    ELSE IF 2 * r >= d THEN DivStep(2 * q + 1, 2 * r - d, e - 1, d)
    ELSE DivStep(2 * q, 2 * r, e - 1, d)

\* f32 division n as f32 / d as f32 for naturals n < 2^24, 0 < d < 2^24 (both
\* exact in f32): the correctly rounded quotient.
F32Div(n, d) ==
    IF n = 0 THEN Zero(0) ELSE DivStep(n \div d, n % d, 0, d)

\* f32 multiplication of x by the f32 holding the natural f <= 100 exactly.
F32Mul(x, f) ==
    IF x.k = "fin" THEN RoundToF32(x.s, x.m * f, x.e) ELSE x

IsFinite(x) == x.k = "fin"

\* x < 0. as f32 comparison: false for NaN and for -0.0
LtZero(x) ==
    \/ x.k = "inf" /\ x.s = 1
    \/ x.k = "fin" /\ x.s = 1 /\ x.m > 0

\* magnitude order of two finite non-negative normalised values
MagLt(a, b) == a.e < b.e \/ (a.e = b.e /\ a.m < b.m)

\* a > b as f32 comparison, b finite and positive
F32Gt(a, b) ==
    \/ a.k = "inf" /\ a.s = 0
    \/ a.k = "fin" /\ a.s = 0 /\ MagLt(b, a)

\* a == b as f32 comparison (NaN differs from everything, -0.0 == 0.0)
F32Eq(a, b) ==
    /\ a.k # "nan" /\ b.k # "nan"
    /\ a.k = b.k
    /\ \/ a.k = "inf" /\ a.s = b.s
       \/ a.k = "fin" /\ a.m = 0 /\ b.m = 0
       \/ a.k = "fin" /\ a.m = b.m /\ a.e = b.e /\ a.s = b.s

\* magnitudes compared: an infinity is above every finite value
MagLtInf(a, b) ==
    IF a.k = "inf" THEN FALSE ELSE IF b.k = "inf" THEN TRUE ELSE MagLt(a, b)

\* a < b as f32 comparison: false when either is NaN, -0.0 is not below 0.0
F32Lt(a, b) ==
    /\ a.k # "nan" /\ b.k # "nan"
    /\ ~(a.k = "fin" /\ a.m = 0 /\ b.k = "fin" /\ b.m = 0)
    /\ IF a.s # b.s THEN a.s = 1
       ELSE IF a.s = 0 THEN MagLtInf(a, b) ELSE MagLtInf(b, a)

\* a >= b as f32 comparison: false when either is NaN
F32Ge(a, b) == a.k # "nan" /\ b.k # "nan" /\ ~F32Lt(a, b)

\* a faulty rounding: truncation toward zero (`as u32` without .round())
F32Round_toward_zero(x) ==
    LET t == 0 - x.e
        mag == IF x.m = 0 THEN 0
               ELSE IF t <= 0 THEN x.m * Pow2(x.e)
               ELSE IF t > MantBits THEN 0
               ELSE x.m \div Pow2(t)
    IN  IF x.s = 1 THEN 0 - mag ELSE mag

\* f32::round (half away from zero) of a finite value of magnitude < 2^24,
\* as the integer it denotes.
F32Round(x) ==
    LET t == 0 - x.e
        mag == IF x.m = 0 THEN 0
               ELSE IF t <= 0 THEN x.m * Pow2(x.e)
               ELSE IF t > MantBits THEN 0
               ELSE (x.m \div Pow2(t))
                    + (IF 2 * (x.m % Pow2(t)) >= Pow2(t) THEN 1 ELSE 0)
    IN  IF x.s = 1 THEN 0 - mag ELSE mag

\* `as u32` of an integer-valued float: saturating at 0
AsU32(i) == IF i < 0 THEN 0 ELSE i

\* next f32 above / below a finite non-negative value
NextUp(x) ==
    IF x.m + 1 = Pow2(MantBits) THEN Fin(0, Pow2(MantBits - 1), x.e + 1)
    ELSE Fin(0, x.m + 1, x.e)

NextDown(x) ==
    IF x.m = 0 THEN Fin(1, 1, MinExp)
    ELSE IF x.m = Pow2(MantBits - 1) /\ x.e > MinExp
    THEN Fin(0, Pow2(MantBits) - 1, x.e - 1)
    ELSE Fin(0, x.m - 1, x.e)

Neg(x) == [x EXCEPT !.s = 1 - x.s]

----------------------------------------------------------------------------
(* Bytes                                                                   *)

CR == 13
PLUS == 43
MINUS == 45
DOT == 46
D0 == 48
D9 == 57
LetterA == 97
LetterK == 75
LetterO == 79
NonAscii == 255

IsDigit(b) == b >= D0 /\ b <= D9

RECURSIVE ToDec(_)
\* Display of an unsigned integer: its decimal digits, most significant first
ToDec(n) == IF n < 10 THEN <<D0 + n>> ELSE Append(ToDec(n \div 10), D0 + (n % 10))

RECURSIVE Zeros(_)
Zeros(n) == IF n <= 0 THEN <<>> ELSE <<D0>> \o Zeros(n - 1)

\* a faulty format string: "{arg}", no padding
FormatZeroPad_unpadded(n, width) == ToDec(n)

\* "{arg:0width$}": zero-padded on the left to at least `width` characters
FormatZeroPad(n, width) ==
    LET d == ToDec(n) IN Zeros(width - Len(d)) \o d

RECURSIVE DigitsValue(_, _)
\* base-10 accumulation over a slice of ASCII digits
DigitsValue(s, acc) ==
    IF s = <<>> THEN acc ELSE DigitsValue(Tail(s), 10 * acc + (Head(s) - D0))

\* str::from_utf8: every byte of the alphabet below 0x80 is valid on its own;
\* the lone byte 0xFF never is.
from_utf8(bytes) == \A i \in 1..Len(bytes) : bytes[i] < 128

\* usize::from_str_radix(s, 10): an empty string and a lone sign are errors,
\* one leading '+' is accepted, every other character must be a digit.
from_str_radix(s) ==
    IF s = <<>> THEN [ok |-> FALSE, v |-> 0]
    ELSE IF Len(s) = 1 /\ (s[1] = PLUS \/ s[1] = MINUS)
    THEN [ok |-> FALSE, v |-> 0]
    ELSE LET body == IF s[1] = PLUS THEN Tail(s) ELSE s
         IN  IF \A i \in 1..Len(body) : IsDigit(body[i])
             THEN [ok |-> TRUE, v |-> DigitsValue(body, 0)]
             ELSE [ok |-> FALSE, v |-> 0]

----------------------------------------------------------------------------
(* The sink: an io::Write that answers its failAt-th write with an error   *)
(* of kind writeErr.  write! goes through Write::write_all, which asks     *)
(* again when the error is ErrorKind::Interrupted and gives up otherwise.  *)

Writer(buf) == [buf |-> buf, n |-> 0, ok |-> TRUE]

\* write!(sink, ...): one formatted write of `bytes`
write(w, bytes) ==
    IF w.n + 1 # failAt
    THEN [buf |-> w.buf \o bytes, n |-> w.n + 1, ok |-> TRUE]
    ELSE IF writeErr = "Interrupted"
    THEN [buf |-> w.buf \o bytes, n |-> w.n + 2, ok |-> TRUE]
    ELSE [buf |-> w.buf, n |-> w.n + 1, ok |-> FALSE]

----------------------------------------------------------------------------
(* ArgFormat                                                               *)

ArgFormat(decimals, digits) == [decimals |-> decimals, digits |-> digits]

NoF32 == [k |-> "none", s |-> 0, m |-> 0, e |-> 0]
CmdOk == [tag |-> "Ok", val |-> NoF32]
ValueUnrepresentable(v) == [tag |-> "ValueUnrepresentable", val |-> v]
WriteFailure(kind) == [tag |-> "WriteFailure", val |-> NoF32, kind |-> kind]

\* f32::powi(10., decimals), as the natural number it holds exactly
factor(f) == Pow10(f.decimals)

\* (f32::powi(10., digits) - 1.) / factor()
max(f) == F32Div(Pow10(f.digits) - 1, factor(f))

\* a faulty range test: `val >= self.max()` turns the largest value away
output_val_rejecting_max(f, v) ==
    IF ~IsFinite(v) \/ LtZero(v) \/ F32Gt(v, max(f)) \/ F32Eq(v, max(f))
    THEN [some |-> FALSE, v |-> 0]
    ELSE [some |-> TRUE, v |-> AsU32(F32Round(F32Mul(v, factor(f))))]

output_val(f, v) ==
    IF ~IsFinite(v) \/ LtZero(v) \/ F32Gt(v, max(f))
    THEN [some |-> FALSE, v |-> 0]
    ELSE [some |-> TRUE, v |-> AsU32(F32Round(F32Mul(v, factor(f))))]

\* a faulty serialize_arg: reports a refused write as an unrepresentable value
serialize_arg_misreporting(f, w, v) ==
    LET value == output_val(f, v) IN
    IF ~value.some THEN [w |-> w, res |-> ValueUnrepresentable(v)]
    ELSE LET w1 == write(w, FormatZeroPad(value.v, f.digits))
         IN  [w |-> w1, res |-> IF w1.ok THEN CmdOk
                                ELSE ValueUnrepresentable(v)]

serialize_arg(f, w, v) ==
    LET value == output_val(f, v) IN
    IF ~value.some THEN [w |-> w, res |-> ValueUnrepresentable(v)]
    ELSE LET w1 == write(w, FormatZeroPad(value.v, f.digits))
         IN  [w |-> w1, res |-> IF w1.ok THEN CmdOk ELSE WriteFailure(writeErr)]

MalformedResponse == [tag |-> "MalformedResponse"]
NoResponse == [tag |-> "NoResponse"]
\* a faulty wrapper: forgets which kind of io::Error the read reported
ReadFailure_kind_lost(kind) == [tag |-> "ReadFailure", kind |-> "Other"]

ReadFailure(kind) == [tag |-> "ReadFailure", kind |-> kind]
Ok(v) == [tag |-> "Ok", val |-> v]

\* a faulty decoder: returns the integer without dividing by factor()
parse_unscaled(f, bytes) ==
    IF Len(bytes) # f.digits THEN MalformedResponse
    ELSE IF ~from_utf8(bytes) THEN MalformedResponse
    ELSE LET as_int == from_str_radix(bytes)
         IN  IF ~as_int.ok THEN MalformedResponse
             ELSE Ok(IntToF32(as_int.v))

parse(f, bytes) ==
    IF Len(bytes) # f.digits THEN MalformedResponse
    ELSE IF ~from_utf8(bytes) THEN MalformedResponse
    ELSE LET as_int == from_str_radix(bytes)
         IN  IF ~as_int.ok THEN MalformedResponse
             ELSE Ok(F32Div(as_int.v, factor(f)))

----------------------------------------------------------------------------
(* Specification of the codec alone: one ArgFormat call, or an encode       *)
(* followed by a decode of what was written                                *)

MaxUlp == 1
ExtraGrid == 2
MaxFine == 1300

\* the field descriptors the protocol uses
Formats ==
    {ArgFormat(1, 3), ArgFormat(2, 3), ArgFormat(0, 1), ArgFormat(2, 4)}

RECURSIVE Nudge(_, _)
\* the f32 `u` steps above (below) the non-negative x
Nudge(x, u) ==
    IF u = 0 THEN x
    ELSE IF u > 0 THEN Nudge(NextUp(x), u - 1)
    ELSE IF x.m = 0 THEN Fin(1, 0 - u, MinExp)
    ELSE Nudge(NextDown(x), u + 1)

\* the f32 nearest to num/den (what the literal denotes), moved by ulp steps
Draw(num, den, ulp) ==
    [val |-> Nudge(F32Div(num, den), ulp),
     src |-> [kind |-> "dec", num |-> num, den |-> den, ulp |-> ulp]]

Special(kind, v) ==
    [val |-> v, src |-> [kind |-> kind, num |-> 0, den |-> 1, ulp |-> 0]]

Specials ==
    { Special("nan", NaN), Special("inf", Inf(0)), Special("inf", Inf(1)),
      Special("neg", Neg(F32Div(1, 1))), Special("neg", Neg(F32Div(1, 100))),
      Special("negzero", Zero(1)),
      Special("big", Fin(0, Pow2(MantBits) - 1, MaxExp)) }

\* the invalid_voltage / invalid_current fixtures: 100., 101., 10.0, 10.1
FixtureTenths == {1000, 1010, 100, 101}

ArgInputs(f) ==
    { Draw(n, Pow10(f.decimals), u) :
        n \in 0..(Pow10(f.digits) - 1 + ExtraGrid), u \in (0 - MaxUlp)..MaxUlp }
    \cup { Draw(n, Pow10(f.decimals + 1), 0) : n \in 0..MaxFine }
    \cup { Draw(n, 10, 0) : n \in FixtureTenths }
    \cup Specials

RawAlphabet == {D0, D9, PLUS, MINUS, DOT, LetterA, 32, CR, NonAscii}

RawInputs(f) ==
    UNION { [1..n -> RawAlphabet] : n \in 0..(f.digits + 1) }
    \cup { FormatZeroPad(k, f.digits) : k \in 0..(Pow10(f.digits) - 1) }

NoCommand == [name |-> "none"]
NoVariant == [model |-> "none"]
NoSrc == [kind |-> "none", num |-> 0, den |-> 1, ulp |-> 0]
NoResult == [tag |-> "none"]

IdleCodec ==
    /\ fmt = ArgFormat(0, 0) /\ val = NoF32 /\ src = NoSrc /\ raw = <<>>
IdleCommand ==
    /\ command = NoCommand /\ failAt = 0 /\ writeErr = "none" /\ writes = 0
\* No frames loaded: the source is whatever the caller handed over.
NoSession == [frames |-> <<>>, trail |-> <<>>]
IdleResponse ==
    /\ source = <<>> /\ rtype = "none" /\ deliver = 0 /\ ioErr = "none"
    /\ reads = 0 /\ got = 0 /\ readBuf = <<>> /\ asked = 0
    /\ session = NoSession /\ results = <<>>
IdleDetect ==
    /\ detected = NoResult

InitCodec ==
    /\ \E f \in Formats :
         /\ fmt = f
         /\ \/ /\ pc = "arg"
               /\ \E i \in ArgInputs(f) : val = i.val /\ src = i.src
               /\ raw = <<>>
            \/ /\ pc = "raw"
               /\ raw \in RawInputs(f)
               /\ val = NoF32 /\ src = NoSrc
    /\ sink = <<>> /\ before = <<>>
    /\ enc = NoResult /\ dec = NoResult
    /\ variant = NoVariant
    /\ IdleCommand /\ IdleResponse /\ IdleDetect

\* fmt.serialize_arg(&mut sink, val)
SerializeArg ==
    /\ pc = "arg"
    /\ \E r \in {serialize_arg(fmt, Writer(sink), val)} :
           /\ sink' = r.w.buf
           /\ enc' = r.res
           /\ writes' = r.w.n
    /\ pc' = "encoded"
    /\ UNCHANGED <<fmt, val, src, raw, before, dec, command, variant, failAt, writeErr,
                   source, rtype, deliver, ioErr, reads, got, readBuf,
                   detected,
                   asked,
                   session,
                   results>>

\* fmt.parse(&sink) on the bytes a successful serialize_arg wrote
ParseEncoded ==
    /\ pc = "encoded" /\ enc.tag = "Ok"
    /\ dec' = parse(fmt, sink)
    /\ pc' = "roundtrip"
    /\ UNCHANGED <<fmt, val, src, raw, sink, before, enc, command, variant,
                   failAt, writeErr, writes, source, rtype, deliver, ioErr, reads, got, readBuf,
                   detected,
                   asked,
                   session,
                   results>>

\* fmt.parse(raw)
Parse ==
    /\ pc = "raw"
    /\ dec' = parse(fmt, raw)
    /\ pc' = "parsed"
    /\ UNCHANGED <<fmt, val, src, raw, sink, before, enc, command, variant,
                   failAt, writeErr, writes, source, rtype, deliver, ioErr, reads, got, readBuf,
                   detected,
                   asked,
                   session,
                   results>>

\* fmt.serialize_arg(&mut sink, value) on the value a successful parse returned
SerializeParsed ==
    /\ pc = "parsed" /\ dec.tag = "Ok"
    /\ \E r \in {serialize_arg(fmt, Writer(sink), dec.val)} :
           /\ sink' = r.w.buf
           /\ enc' = r.res
           /\ writes' = r.w.n
    /\ pc' = "reencoded"
    /\ UNCHANGED <<fmt, val, src, raw, before, dec, command, variant, failAt,
                   writeErr, source, rtype, deliver, ioErr, reads, got,
                   readBuf, detected, asked, session, results>>

NextCodec == SerializeArg \/ ParseEncoded \/ Parse \/ SerializeParsed

SpecCodec == InitCodec /\ [][NextCodec]_vars

----------------------------------------------------------------------------
(* Supply variants                                                         *)

BK1685B ==
    [model |-> "BK1685B", nominal_max_voltage |-> 60, nominal_max_current |-> 5,
     current_decimals |-> 2, voltage_decimals |-> 1]

\* a faulty registry entry: a 52 V model, whose band reaches into the 60 V band
BK1687B_at_52 ==
    [model |-> "BK1687B", nominal_max_voltage |-> 52, nominal_max_current |-> 10,
     current_decimals |-> 1, voltage_decimals |-> 1]

BK1687B ==
    [model |-> "BK1687B", nominal_max_voltage |-> 36, nominal_max_current |-> 10,
     current_decimals |-> 1, voltage_decimals |-> 1]

BK1688B ==
    [model |-> "BK1688B", nominal_max_voltage |-> 18, nominal_max_current |-> 20,
     current_decimals |-> 1, voltage_decimals |-> 1]

\* the any_psu fixture
Variants == {BK1685B, BK1687B, BK1688B}

----------------------------------------------------------------------------
(* Commands                                                                *)

SetVoltage(v) == [name |-> "SetVoltage", v |-> v]
SetVoltageLimit(v) == [name |-> "SetVoltageLimit", v |-> v]
SetCurrent(v) == [name |-> "SetCurrent", v |-> v]
SetCurrentLimit(v) == [name |-> "SetCurrentLimit", v |-> v]
SetOutput(state) == [name |-> "SetOutput", state |-> state]
SelectPreset(index) == [name |-> "SelectPreset", index |-> index]
OperatingPoint(voltage, current) == [voltage |-> voltage, current |-> current]
SetPresets(p0, p1, p2) == [name |-> "SetPresets", p |-> <<p0, p1, p2>>]
Query(name) == [name |-> name]

QueryNames ==
    {"GetSettings", "GetStatus", "GetVoltageLimit", "GetCurrentLimit",
     "GetCapabilities", "GetPresets"}

\* Command::FUNCTION, as ASCII
FUNCTION(c) ==
    CASE c.name = "SetVoltage" -> <<86, 79, 76, 84>>        \* VOLT
      [] c.name = "SetVoltageLimit" -> <<83, 79, 86, 80>>   \* SOVP
      [] c.name = "SetCurrent" -> <<67, 85, 82, 82>>        \* CURR
      [] c.name = "SetCurrentLimit" -> <<83, 79, 67, 80>>   \* SOCP
      [] c.name = "SetOutput" -> <<83, 79, 85, 84>>         \* SOUT
      [] c.name = "SelectPreset" -> <<82, 85, 78, 77>>      \* RUNM
      [] c.name = "SetPresets" -> <<80, 82, 79, 77>>        \* PROM
      [] c.name = "GetSettings" -> <<71, 69, 84, 83>>       \* GETS
      [] c.name = "GetStatus" -> <<71, 69, 84, 68>>         \* GETD
      [] c.name = "GetVoltageLimit" -> <<71, 79, 86, 80>>   \* GOVP
      [] c.name = "GetCurrentLimit" -> <<71, 79, 67, 80>>   \* GOCP
      [] c.name = "GetCapabilities" -> <<71, 77, 65, 88>>   \* GMAX
      [] c.name = "GetPresets" -> <<71, 69, 84, 77>>        \* GETM

\* a faulty arg_val: On as 1, Off as 0
OutputState_arg_val_direct(state) == IF state = "On" THEN 1 ELSE 0

\* OutputState::arg_val
OutputState_arg_val(state) == IF state = "On" THEN 0 ELSE 1

\* PresetIndex::arg_val
PresetIndex_arg_val(index) ==
    CASE index = "One" -> 0 [] index = "Two" -> 1 [] index = "Three" -> 2

\* a faulty chain: the next field is written although an earlier one failed
AndThen_past_failure(r, f, v) == serialize_arg(f, r.w, v)

\* the `?` operator between two serialize_arg calls
AndThen(r, f, v) == IF r.res.tag = "Ok" THEN serialize_arg(f, r.w, v) ELSE r

\* a faulty SetPresets: each point's current written before its voltage
SetPresets_currents_first(c, w, psu) ==
    LET v_fmt == ArgFormat(psu.voltage_decimals, 3)
        i_fmt == ArgFormat(psu.current_decimals, 3)
        r1 == serialize_arg(i_fmt, w, c.p[1].current)
        r2 == AndThen(r1, v_fmt, c.p[1].voltage)
        r3 == AndThen(r2, i_fmt, c.p[2].current)
        r4 == AndThen(r3, v_fmt, c.p[2].voltage)
        r5 == AndThen(r4, i_fmt, c.p[3].current)
    IN  AndThen(r5, v_fmt, c.p[3].voltage)

SetPresets_serialize_args(c, w, psu) ==
    LET v_fmt == ArgFormat(psu.voltage_decimals, 3)
        i_fmt == ArgFormat(psu.current_decimals, 3)
        r1 == serialize_arg(v_fmt, w, c.p[1].voltage)
        r2 == AndThen(r1, i_fmt, c.p[1].current)
        r3 == AndThen(r2, v_fmt, c.p[2].voltage)
        r4 == AndThen(r3, i_fmt, c.p[2].current)
        r5 == AndThen(r4, v_fmt, c.p[3].voltage)
    IN  AndThen(r5, i_fmt, c.p[3].current)

\* a faulty serialize_args: a voltage above the variant's nominal maximum is
\* turned away
serialize_args_within_nominal(c, w, psu) ==
    CASE c.name \in {"SetVoltage", "SetVoltageLimit"}
            /\ F32Gt(c.v, IntToF32(psu.nominal_max_voltage)) ->
            [w |-> w, res |-> ValueUnrepresentable(c.v)]
      [] c.name \in {"SetVoltage", "SetVoltageLimit"}
            /\ ~F32Gt(c.v, IntToF32(psu.nominal_max_voltage)) ->
            serialize_arg(ArgFormat(psu.voltage_decimals, 3), w, c.v)
      [] c.name \in {"SetCurrent", "SetCurrentLimit"} ->
            serialize_arg(ArgFormat(psu.current_decimals, 3), w, c.v)
      [] c.name = "SetOutput" ->
            serialize_arg(ArgFormat(0, 1), w,
                          IntToF32(OutputState_arg_val(c.state)))
      [] c.name = "SelectPreset" ->
            serialize_arg(ArgFormat(0, 1), w,
                          IntToF32(PresetIndex_arg_val(c.index)))
      [] c.name = "SetPresets" -> SetPresets_serialize_args(c, w, psu)
      [] OTHER -> [w |-> w, res |-> CmdOk]

\* Command::serialize_args of each command
serialize_args(c, w, psu) ==
    CASE c.name \in {"SetVoltage", "SetVoltageLimit"} ->
            serialize_arg(ArgFormat(psu.voltage_decimals, 3), w, c.v)
      [] c.name \in {"SetCurrent", "SetCurrentLimit"} ->
            serialize_arg(ArgFormat(psu.current_decimals, 3), w, c.v)
      [] c.name = "SetOutput" ->
            serialize_arg(ArgFormat(0, 1), w,
                          IntToF32(OutputState_arg_val(c.state)))
      [] c.name = "SelectPreset" ->
            serialize_arg(ArgFormat(0, 1), w,
                          IntToF32(PresetIndex_arg_val(c.index)))
      [] c.name = "SetPresets" -> SetPresets_serialize_args(c, w, psu)
      [] OTHER -> [w |-> w, res |-> CmdOk]

\* a faulty send_command: the result of serialize_args is looked at only after
\* the closing write!(self, "\r")
send_command_terminating_failures(w, c, psu) ==
    LET w1 == write(w, FUNCTION(c)) IN
    IF ~w1.ok THEN [w |-> w1, res |-> WriteFailure(writeErr)]
    ELSE LET r == serialize_args(c, w1, psu)
             w2 == write(r.w, <<CR>>)
         IN  IF r.res.tag # "Ok" THEN [w |-> w2, res |-> r.res]
             ELSE [w |-> w2, res |-> IF w2.ok THEN CmdOk ELSE WriteFailure(writeErr)]

\* a faulty send_command: the closing write!(self, "\r") left out
send_command_unterminated(w, c, psu) ==
    LET w1 == write(w, FUNCTION(c)) IN
    IF ~w1.ok THEN [w |-> w1, res |-> WriteFailure(writeErr)]
    ELSE serialize_args(c, w1, psu)

\* CommandSink::send_command
send_command(w, c, psu) ==
    LET w1 == write(w, FUNCTION(c)) IN
    IF ~w1.ok THEN [w |-> w1, res |-> WriteFailure(writeErr)]
    ELSE LET r == serialize_args(c, w1, psu) IN
         IF r.res.tag # "Ok" THEN r
         ELSE LET w2 == write(r.w, <<CR>>)
              IN  [w |-> w2, res |-> IF w2.ok THEN CmdOk ELSE WriteFailure(writeErr)]

----------------------------------------------------------------------------
(* Specification of command serialization: one send_command call           *)

MaxTenths == 1010
MaxHundredths == 1300
MaxFailAt == 8

CommandVals ==
    { Draw(n, 10, 0).val : n \in 0..MaxTenths }
    \cup { Draw(n, 100, 0).val : n \in 0..MaxHundredths }
    \cup { Draw(n, 1000, 0).val : n \in {821, 1299} }
    \cup { i.val : i \in Specials }

\* 0.22, 2.2, 10.0, NaN
PresetVals == {F32Div(22, 100), F32Div(22, 10), F32Div(10, 1), NaN}

\* 12.3, 2.2, 10.0, 100., -1.
FewVals ==
    {F32Div(123, 10), F32Div(22, 10), F32Div(10, 1), F32Div(100, 1),
     Neg(F32Div(1, 1))}

\* 2.2, NaN
FewPresetVals == {F32Div(22, 10), NaN}

ScalarCommands(vals) ==
    { SetVoltage(v) : v \in vals } \cup { SetVoltageLimit(v) : v \in vals }
    \cup { SetCurrent(v) : v \in vals } \cup { SetCurrentLimit(v) : v \in vals }

PresetCommands(vals) ==
    { SetPresets(OperatingPoint(q[1], q[2]), OperatingPoint(q[3], q[4]),
                 OperatingPoint(q[5], q[6])) : q \in [1..6 -> vals] }

FixedCommands ==
    { SetOutput(st) : st \in {"On", "Off"} }
    \cup { SelectPreset(i) : i \in {"One", "Two", "Three"} }
    \cup { Query(n) : n \in QueryNames }

\* presets that are 0. everywhere but at one position
OneNonZero(i, v) == [j \in 1..6 |-> IF j = i THEN v ELSE Zero(0)]

ZeroedPresets ==
    PresetCommands({Zero(0)}) \cup
    { SetPresets(OperatingPoint(OneNonZero(i, v)[1], OneNonZero(i, v)[2]),
                 OperatingPoint(OneNonZero(i, v)[3], OneNonZero(i, v)[4]),
                 OperatingPoint(OneNonZero(i, v)[5], OneNonZero(i, v)[6])) :
        i \in 1..6, v \in PresetVals \cup FewVals }

\* an operating point given in tenths of a volt and hundredths of an ampere
Point(tenths, hundredths) ==
    OperatingPoint(F32Div(tenths, 10), F32Div(hundredths, 100))

\* the presets of the serialize_for_low_v_psu / serialize_for_high_v_psu tests
TestPresets ==
    { SetPresets(Point(11, 220), Point(33, 440), Point(55, 660)),
      SetPresets(Point(50, 100), Point(125, 300), Point(150, 50)),
      SetPresets(Point(11, 22), Point(33, 44), Point(55, 66)),
      SetPresets(Point(50, 100), Point(125, 300), Point(150, 55)) }

Commands ==
    ScalarCommands(CommandVals) \cup PresetCommands(PresetVals)
    \cup ZeroedPresets \cup TestPresets \cup FixedCommands

FewCommands ==
    ScalarCommands(FewVals) \cup PresetCommands(FewPresetVals) \cup FixedCommands

\* the kinds of error the failing sink answers with
SinkErrorKinds == {"NotConnected", "BrokenPipe", "Interrupted", "Other"}

\* what the sink may hold already: nothing, or an earlier "GETS\r"
SinkPrefixes == {<<>>, <<71, 69, 84, 83, CR>>}

InitCommand ==
    /\ pc = "cmd"
    /\ variant \in Variants
    /\ \/ /\ sink = <<>> /\ failAt = 0 /\ writeErr = "none"
          /\ command \in Commands
       \/ /\ sink \in SinkPrefixes /\ failAt = 0 /\ writeErr = "none"
          /\ command \in FewCommands
       \/ /\ sink \in SinkPrefixes /\ failAt \in 1..MaxFailAt
          /\ writeErr \in SinkErrorKinds
          /\ command \in FewCommands
    /\ writes = 0
    /\ before = sink
    /\ enc = NoResult /\ dec = NoResult
    /\ IdleCodec /\ IdleResponse /\ IdleDetect

\* sink.send_command(&command, variant)
SendCommand ==
    /\ pc = "cmd"
    /\ \E r \in {send_command(Writer(sink), command, variant)} :
           /\ sink' = r.w.buf
           /\ enc' = r.res
           /\ writes' = r.w.n
    /\ before' = sink
    /\ pc' = "sent"
    /\ UNCHANGED <<fmt, val, src, raw, dec, command, variant, failAt, writeErr, source,
                   rtype, deliver, ioErr, reads, got, readBuf,
                   detected,
                   asked,
                   session,
                   results>>

NextCommand == SendCommand

SpecCommand == InitCommand /\ [][NextCommand]_vars

----------------------------------------------------------------------------
(* Responses                                                               *)

ResponseTypes ==
    {"Unit", "Voltage", "Current", "Settings", "Status", "Presets",
     "Capabilities"}

\* Response::arg_bytes
arg_bytes(R) ==
    CASE R = "Unit" -> 0
      [] R = "Voltage" -> 3
      [] R = "Current" -> 3
      [] R = "Settings" -> 6
      [] R = "Status" -> 9
      [] R = "Presets" -> 6 * 3 + 2
      [] R = "Capabilities" -> 6

Panic == [tag |-> "Panic"]

\* slice::split_at(mid); the caller checks mid <= len, beyond which it panics
split_at(bytes, mid) ==
    [left |-> SubSeq(bytes, 1, mid), right |-> SubSeq(bytes, mid + 1, Len(bytes))]

RECURSIVE split(_, _)
\* slice::split(|&b| b == sep): the chunks between separators, empty ones too
split(bytes, cur) ==
    IF bytes = <<>> THEN <<cur>>
    ELSE IF Head(bytes) = CR THEN <<cur>> \o split(Tail(bytes), <<>>)
    ELSE split(Tail(bytes), Append(cur, Head(bytes)))

\* variant_for_max_voltage: the first registry entry whose band holds voltage
\* a faulty band test: the upper bound included
InBand_closed_above(voltage, supply) ==
    LET nom_volt == IntToF32(supply.nominal_max_voltage)
        top_volt == IntToF32(supply.nominal_max_voltage + 10)
    IN  F32Ge(voltage, nom_volt) /\ F32Ge(top_volt, voltage)

InBand(voltage, supply) ==
    LET nom_volt == IntToF32(supply.nominal_max_voltage)
        top_volt == IntToF32(supply.nominal_max_voltage + 10)
    IN  F32Ge(voltage, nom_volt) /\ F32Lt(voltage, top_volt)

variant_for_max_voltage(voltage) ==
    IF InBand(voltage, BK1685B) THEN BK1685B
    ELSE IF InBand(voltage, BK1687B) THEN BK1687B
    ELSE IF InBand(voltage, BK1688B) THEN BK1688B
    ELSE NoVariant

Voltage_parse_args(bytes, psu) ==
    LET voltage == parse(ArgFormat(psu.voltage_decimals, arg_bytes("Voltage")), bytes)
    IN  IF voltage.tag # "Ok" THEN voltage
        ELSE Ok([t |-> "Voltage", v |-> voltage.val])

Current_parse_args(bytes, psu) ==
    LET current == parse(ArgFormat(psu.current_decimals, arg_bytes("Current")), bytes)
    IN  IF current.tag # "Ok" THEN current
        ELSE Ok([t |-> "Current", v |-> current.val])

Settings_parse_args(bytes, psu) ==
    LET volt_fmt == ArgFormat(psu.voltage_decimals, 3)
        curr_fmt == ArgFormat(psu.current_decimals, 3)
        parts == split_at(bytes, volt_fmt.digits)
        voltage == parse(volt_fmt, parts.left)
        current == parse(curr_fmt, parts.right)
    IN  IF voltage.tag # "Ok" THEN voltage
        ELSE IF current.tag # "Ok" THEN current
        ELSE Ok([t |-> "Settings", voltage |-> voltage.val,
                 current |-> current.val])

Status_parse_args(bytes, psu) ==
    LET arg_fmt == ArgFormat(2, 4) IN
    IF bytes = <<>> THEN MalformedResponse
    ELSE LET mode_raw == bytes[Len(bytes)]
             args_raw == SubSeq(bytes, 1, Len(bytes) - 1)
         IN  IF arg_fmt.digits > Len(args_raw) THEN Panic
             ELSE LET parts == split_at(args_raw, arg_fmt.digits)
                      voltage == parse(arg_fmt, parts.left)
                      current == parse(arg_fmt, parts.right)
                  IN  IF voltage.tag # "Ok" THEN voltage
                      ELSE IF current.tag # "Ok" THEN current
                      ELSE IF mode_raw = D0
                      THEN Ok([t |-> "Status", voltage |-> voltage.val,
                               current |-> current.val,
                               mode |-> "ConstantVoltage"])
                      ELSE IF mode_raw = D0 + 1
                      THEN Ok([t |-> "Status", voltage |-> voltage.val,
                               current |-> current.val,
                               mode |-> "ConstantCurrent"])
                      ELSE MalformedResponse

\* Presets::parse_operating_point
\* a faulty decode: reads the current in front of the voltage
parse_operating_point_swapped(bytes, v_fmt, i_fmt) ==
    IF i_fmt.digits > Len(bytes) THEN Panic
    ELSE LET parts == split_at(bytes, i_fmt.digits)
             current == parse(i_fmt, parts.left)
             voltage == parse(v_fmt, parts.right)
         IN  IF current.tag # "Ok" THEN current
             ELSE IF voltage.tag # "Ok" THEN voltage
             ELSE Ok(OperatingPoint(voltage.val, current.val))

parse_operating_point(bytes, v_fmt, i_fmt) ==
    IF v_fmt.digits > Len(bytes) THEN Panic
    ELSE LET parts == split_at(bytes, v_fmt.digits)
             voltage == parse(v_fmt, parts.left)
             current == parse(i_fmt, parts.right)
         IN  IF voltage.tag # "Ok" THEN voltage
             ELSE IF current.tag # "Ok" THEN current
             ELSE Ok(OperatingPoint(voltage.val, current.val))

Presets_parse_args(bytes, psu) ==
    LET v_fmt == ArgFormat(psu.voltage_decimals, 3)
        i_fmt == ArgFormat(psu.current_decimals, 3)
        op_points == split(bytes, <<>>)
        p0 == parse_operating_point(op_points[1], v_fmt, i_fmt)
        p1 == parse_operating_point(op_points[2], v_fmt, i_fmt)
        p2 == parse_operating_point(op_points[3], v_fmt, i_fmt)
    IN  IF p0.tag # "Ok" THEN p0
        ELSE IF Len(op_points) < 2 THEN MalformedResponse
        ELSE IF p1.tag # "Ok" THEN p1
        ELSE IF Len(op_points) < 3 THEN MalformedResponse
        ELSE IF p2.tag # "Ok" THEN p2
        ELSE IF Len(op_points) > 3 THEN MalformedResponse
        ELSE Ok([t |-> "Presets", p |-> <<p0.val, p1.val, p2.val>>])

\* a faulty decode: the current's precision of the first registry entry for
\* every variant that matches
Capabilities_parse_args_first_entry(bytes, psu) ==
    LET volt_fmt == ArgFormat(1, 3)
        parts == split_at(bytes, volt_fmt.digits)
        voltage == parse(volt_fmt, parts.left)
    IN  IF voltage.tag # "Ok" THEN voltage
        ELSE LET v == variant_for_max_voltage(voltage.val)
                 current_decimals ==
                     IF v = NoVariant THEN 1 ELSE BK1685B.current_decimals
                 current == parse(ArgFormat(current_decimals, 3), parts.right)
             IN  IF current.tag # "Ok" THEN current
                 ELSE Ok([t |-> "Capabilities", max_voltage |-> voltage.val,
                          max_current |-> current.val])

\* a faulty decode: takes the current's precision from the caller's variant
Capabilities_parse_args_trusting(bytes, psu) ==
    LET volt_fmt == ArgFormat(1, 3)
        parts == split_at(bytes, volt_fmt.digits)
        voltage == parse(volt_fmt, parts.left)
    IN  IF voltage.tag # "Ok" THEN voltage
        ELSE LET current ==
                     parse(ArgFormat(psu.current_decimals, 3), parts.right)
             IN  IF current.tag # "Ok" THEN current
                 ELSE Ok([t |-> "Capabilities", max_voltage |-> voltage.val,
                          max_current |-> current.val])

\* a faulty decode: falls back to two decimals when no variant matches
Capabilities_parse_args_fallback_2(bytes, psu) ==
    LET volt_fmt == ArgFormat(1, 3)
        parts == split_at(bytes, volt_fmt.digits)
        voltage == parse(volt_fmt, parts.left)
    IN  IF voltage.tag # "Ok" THEN voltage
        ELSE LET v == variant_for_max_voltage(voltage.val)
                 current_decimals ==
                     IF v = NoVariant THEN 2 ELSE v.current_decimals
                 current == parse(ArgFormat(current_decimals, 3), parts.right)
             IN  IF current.tag # "Ok" THEN current
                 ELSE Ok([t |-> "Capabilities", max_voltage |-> voltage.val,
                          max_current |-> current.val])

Capabilities_parse_args(bytes, psu) ==
    LET volt_fmt == ArgFormat(1, 3)
        parts == split_at(bytes, volt_fmt.digits)
        voltage == parse(volt_fmt, parts.left)
    IN  IF voltage.tag # "Ok" THEN voltage
        ELSE LET v == variant_for_max_voltage(voltage.val)
                 current_decimals ==
                     IF v = NoVariant THEN 1 ELSE v.current_decimals
                 current == parse(ArgFormat(current_decimals, 3), parts.right)
             IN  IF current.tag # "Ok" THEN current
                 ELSE Ok([t |-> "Capabilities", max_voltage |-> voltage.val,
                          max_current |-> current.val])

\* Response::parse_args of each response type
parse_args(R, bytes, psu) ==
    CASE R = "Unit" -> Ok([t |-> "Unit"])
      [] R = "Voltage" -> Voltage_parse_args(bytes, psu)
      [] R = "Current" -> Current_parse_args(bytes, psu)
      [] R = "Settings" -> Settings_parse_args(bytes, psu)
      [] R = "Status" -> Status_parse_args(bytes, psu)
      [] R = "Presets" -> Presets_parse_args(bytes, psu)
      [] R = "Capabilities" -> Capabilities_parse_args(bytes, psu)

\* "OK\r"
OK == <<LetterO, LetterK, CR>>

\* a faulty check: compares the two letters and not the terminator
verify_ok_letters_only(bytes) ==
    Len(bytes) >= 2 /\ SubSeq(bytes, 1, 2) = <<LetterO, LetterK>>

verify_ok(bytes) == bytes = OK

\* a faulty check: lets a digit stand where the separator is due
verify_sep_or_digit(sep) == sep = CR \/ IsDigit(sep)

verify_sep(sep) == sep = CR

\* a faulty frame size: the separator byte forgotten
before_ok_bytes_without_sep(R) == arg_bytes(R)

before_ok_bytes(R) == IF arg_bytes(R) # 0 THEN arg_bytes(R) + 1 ELSE arg_bytes(R)

total_bytes(R) == before_ok_bytes(R) + Len(OK)

Min(a, b) == IF a < b THEN a ELSE b

\* a faulty read: the source hands over bytes beyond the end of the buffer
read_count_past_buffer(R) == Min(Len(source), deliver)

\* Read::read(&mut buf) on the source: the number of bytes it hands over
read_count(R) == Min(total_bytes(R), Min(Len(source), deliver))

\* a faulty get_response: the `read == 0` test left out
classify_without_zero_test(R, psu, count) ==
    LET buf == SubSeq(source, 1, count) \o [i \in 1..(total_bytes(R) - count) |-> 0]
    IN  IF count # total_bytes(R) THEN MalformedResponse
        ELSE LET parts == split_at(buf, before_ok_bytes(R)) IN
             IF ~verify_ok(parts.right) THEN MalformedResponse
             ELSE IF arg_bytes(R) # 0
             THEN IF ~verify_sep(parts.left[Len(parts.left)])
                  THEN MalformedResponse
                  ELSE parse_args(R, SubSeq(parts.left, 1, Len(parts.left) - 1), psu)
             ELSE parse_args(R, parts.left, psu)

\* get_response, after a read that moved the first `count` bytes of `from`
\* into the zeroed buffer
classify_from(R, psu, from, count) ==
    LET buf == SubSeq(from, 1, count) \o [i \in 1..(total_bytes(R) - count) |-> 0]
    IN  IF count = 0 THEN NoResponse
        ELSE IF count # total_bytes(R) THEN MalformedResponse
        ELSE LET parts == split_at(buf, before_ok_bytes(R)) IN
             IF ~verify_ok(parts.right) THEN MalformedResponse
             ELSE IF arg_bytes(R) # 0
             THEN IF parts.left = <<>> THEN MalformedResponse
                  ELSE IF ~verify_sep(parts.left[Len(parts.left)])
                  THEN MalformedResponse
                  ELSE parse_args(R, SubSeq(parts.left, 1, Len(parts.left) - 1), psu)
             ELSE parse_args(R, parts.left, psu)

\* get_response, after a read that filled `count` bytes of the zeroed buffer
classify(R, psu, count) == classify_from(R, psu, source, count)

----------------------------------------------------------------------------
(* Specification of response deserialization: one get_response call        *)

MaxDeliver == 24
MaxVolts == 999
MaxField3 == 999

Digits3(k) == FormatZeroPad(k, 3)
Digits4(k) == FormatZeroPad(k, 4)

\* every field of three digits (the valid_num fixture among them)
GoodFields3 == { Digits3(k) : k \in 0..MaxField3 }

\* "+12", "-12", "22.", " 12", "a32", "22f"
BadFields3 ==
    { <<PLUS, 49, 50>>, <<MINUS, 49, 50>>, <<50, 50, DOT>>, <<32, 49, 50>>,
      <<LetterA, 51, 50>>, <<50, 50, 102>> }

SettingsFields ==
    { Digits3(k) : k \in {0, 1, 10, 100, 123, 456, 999} }
    \cup { <<PLUS, 49, 50>>, <<MINUS, 49, 50>>, <<50, 50, 102>> }

\* every three-digit voltage field, and "+60", "6a1"
CapabilityVolts ==
    { Digits3(k) : k \in 0..MaxVolts }
    \cup { <<PLUS, 54, 48>>, <<54, LetterA, 49>> }

CapabilityAmps ==
    { Digits3(k) : k \in {0, 101, 201, 501, 999} } \cup { <<LetterA, 48, 49>> }

StatusFields ==
    { Digits4(k) : k \in {0, 1234, 5678, 9999, 9876, 5432, 302, 145} }
    \cup { <<49, 50, DOT, 52>>, <<PLUS, 53, 54, 55>>,
           <<MINUS, MINUS, MINUS, MINUS>>, <<102, 111, 111, D0>> }

StatusModes == {D0, D0 + 1, D0 + 2, D9, LetterA}

PresetChunks ==
    { Digits3(11) \o Digits3(22), Digits3(33) \o Digits3(44),
      Digits3(0) \o Digits3(0), Digits3(999) \o Digits3(999),
      <<48, 49, LetterA, 48, 50, 50>> }

Ones(n) == [i \in 1..n |-> D0 + 1]

RECURSIVE JoinOnes(_)
\* chunks of '1' of the given lengths, joined by '\r'
JoinOnes(lens) ==
    IF Len(lens) = 1 THEN Ones(lens[1])
    ELSE Ones(lens[1]) \o <<CR>> \o JoinOnes(Tail(lens))

\* chunk lengths of ill-structured 20-byte presets blocks
ChunkPatterns ==
    { <<20>>, <<9, 10>>, <<6, 13>>, <<13, 6>>, <<7, 5, 6>>, <<5, 7, 6>>,
      <<6, 7, 5>>, <<6, 5, 7>>, <<3, 9, 6>>, <<6, 3, 9>>, <<6, 6, 5, 0>>,
      <<6, 5, 5, 1>>, <<6, 6, 4, 1>>, <<6, 6, 3, 2>>, <<6, 6, 6>>,
      <<2, 8, 8>>, <<6, 2, 10>>, <<6, 6, 2, 3>>, <<0, 9, 9>>, <<6, 0, 12>>,
      <<6, 6, 0, 5>> }

ArgBlocks(R) ==
    CASE R = "Unit" -> { <<>> }
      [] R \in {"Voltage", "Current"} -> GoodFields3 \cup BadFields3
      [] R = "Settings" -> { a \o b : a \in SettingsFields, b \in SettingsFields }
      [] R = "Capabilities" ->
            { a \o b : a \in CapabilityVolts, b \in CapabilityAmps }
      [] R = "Status" ->
            { a \o b \o <<m>> : a \in StatusFields, b \in StatusFields,
                                m \in StatusModes }
      [] R = "Presets" ->
            { a \o <<CR>> \o b \o <<CR>> \o c :
                a \in PresetChunks, b \in PresetChunks, c \in PresetChunks }
            \cup { JoinOnes(l) : l \in ChunkPatterns }

\* the dummy_arg_for blocks of the frame-reader tests, and one of '9's
SampleBlocks(R) ==
    { [i \in 1..arg_bytes(R) |-> D0], [i \in 1..arg_bytes(R) |-> D9] }

Separator(R) == IF arg_bytes(R) # 0 THEN <<CR>> ELSE <<>>

\* the invalid_sep fixture: ' ', '\n', '#', '.', '0', '9'
InvalidSeps == {32, 10, 35, DOT, D0, D9}

\* the invalid_ack fixture: "foo", "OK", "ok", "\r", "NOK\r", "ERROR\r"
InvalidAcks ==
    { <<102, 111, 111>>, <<LetterO, LetterK>>, <<111, 107>>, <<CR>>,
      <<78, LetterO, LetterK, CR>>, <<69, 82, 82, LetterO, 82, CR>> }

\* three bytes one byte away from the acknowledgement: "OK\n", "OK0", "ok\r",
\* "Ok\r", "KO\r", "0K\r", "O\r\r", "\rOK", "K\rO"
NearAcks ==
    { <<LetterO, LetterK, 10>>, <<LetterO, LetterK, D0>>, <<111, 107, CR>>,
      <<LetterO, 107, CR>>, <<LetterK, LetterO, CR>>, <<D0, LetterK, CR>>,
      <<LetterO, CR, CR>>, <<CR, LetterO, LetterK>>, <<LetterK, CR, LetterO>> }

WellFramed(R, blocks) == { b \o Separator(R) \o OK : b \in blocks }

IllFramed(R) ==
    { b \o OK : b \in SampleBlocks(R) }
    \cup { b \o <<x>> \o OK : b \in SampleBlocks(R), x \in InvalidSeps }
    \cup { b \o <<CR, CR>> \o OK : b \in SampleBlocks(R) }
    \cup { b \o Separator(R) \o a : b \in SampleBlocks(R), a \in InvalidAcks }
    \cup { b \o Separator(R) \o a : b \in SampleBlocks(R), a \in NearAcks }
    \cup { b \o Separator(R) \o <<102, 111, 111>> : b \in ArgBlocks(R) }
    \cup { <<>>, OK }

\* a frame with the start of the next one behind it
Trailed(R) == { f \o OK : f \in WellFramed(R, SampleBlocks(R)) }

\* the io_error fixture
ErrorKinds ==
    {"NotFound", "PermissionDenied", "NotConnected", "BrokenPipe",
     "InvalidData", "Interrupted", "Other"}

InitResponse ==
    /\ pc = "resp"
    /\ variant \in Variants
    /\ rtype \in ResponseTypes
    /\ \/ /\ source \in WellFramed(rtype, ArgBlocks(rtype)) \cup IllFramed(rtype)
                        \cup Trailed(rtype)
          /\ deliver = MaxDeliver /\ ioErr = "none"
       \/ /\ source \in WellFramed(rtype, SampleBlocks(rtype)) \cup Trailed(rtype)
                        \cup { <<>> }
          /\ \/ deliver \in 0..MaxDeliver /\ ioErr = "none"
             \/ deliver = MaxDeliver /\ ioErr \in ErrorKinds
    /\ reads = 0 /\ got = 0 /\ readBuf = <<>> /\ asked = 0
    /\ session = NoSession /\ results = <<>>
    /\ sink = <<>> /\ before = <<>>
    /\ enc = NoResult /\ dec = NoResult
    /\ IdleCodec /\ IdleCommand /\ IdleDetect

\* source.get_response::<rtype>(variant)
GetResponse ==
    /\ pc = "resp"
    /\ reads' = reads + 1
    /\ asked' = total_bytes(rtype)
    /\ IF ioErr # "none"
       THEN /\ dec' = ReadFailure(ioErr)
            /\ source' = source
            /\ got' = 0
            /\ readBuf' = <<>>
       ELSE /\ dec' = classify(rtype, variant, read_count(rtype))
            /\ source' = SubSeq(source, read_count(rtype) + 1, Len(source))
            /\ got' = read_count(rtype)
            /\ readBuf' = SubSeq(source, 1, read_count(rtype))
    /\ results' = Append(results, dec')
    /\ pc' = "got"
    /\ UNCHANGED <<fmt, val, src, raw, sink, before, enc, command, variant,
                   failAt, writeErr, writes, rtype, deliver, ioErr, detected,
                   session>>

NextResponse == GetResponse

SpecResponse == InitResponse /\ [][NextResponse]_vars

----------------------------------------------------------------------------
(* Specification of the presets loop: SetPresets written to the supply,    *)
(* the supply answering with the presets it holds, get_response::<Presets> *)

MaxGrid == 999

\* the f32 nearest to k / 10^decimals
Grid(k, decimals) == F32Div(k, Pow10(decimals))

\* SetPresets from six values: p1.voltage, p1.current, ..., p3.current
PresetsOf(q) ==
    SetPresets(OperatingPoint(q[1], q[2]), OperatingPoint(q[3], q[4]),
               OperatingPoint(q[5], q[6]))

\* the six values given as multiples of the field resolution of psu
OnGridPresets(k, psu) ==
    PresetsOf([j \in 1..6 |->
                 Grid(k[j], IF j % 2 = 1 THEN psu.voltage_decimals
                            ELSE psu.current_decimals)])

\* 11, 22, 33, 44, 55, 66 with the i-th replaced by n
OneSwept(i, n) == [j \in 1..6 |-> IF j = i THEN n ELSE 11 * j]

\* presets on the grid of psu: each field swept over the 3-digit range, and
\* every combination of the smallest and largest value; and the presets of
\* the serialization tests, some of them off the grid of psu
LoopPresets(psu) ==
    { OnGridPresets(OneSwept(i, n), psu) : i \in 1..6, n \in 0..MaxGrid }
    \cup { OnGridPresets(k, psu) : k \in [1..6 -> {0, MaxGrid}] }
    \cup TestPresets

InitPresetsLoop ==
    /\ pc = "cmd"
    /\ variant \in Variants
    /\ \/ sink = <<>> /\ command \in LoopPresets(variant)
       \/ sink \in SinkPrefixes /\ command \in TestPresets
    /\ before = sink
    /\ failAt = 0 /\ writeErr = "none" /\ writes = 0
    /\ enc = NoResult /\ dec = NoResult
    /\ IdleCodec /\ IdleResponse /\ IdleDetect

\* the supply stores the 18 digits it was sent and answers GETM with them:
\* three 6-digit chunks joined by '\r', then "\rOK\r"
EchoPresets ==
    /\ pc = "sent" /\ command.name = "SetPresets" /\ enc = CmdOk
    /\ LET digits == SubSeq(sink, Len(before) + 5, Len(before) + 22)
       IN  source' = SubSeq(digits, 1, 6) \o <<CR>> \o SubSeq(digits, 7, 12)
                     \o <<CR>> \o SubSeq(digits, 13, 18) \o <<CR>> \o OK
    /\ rtype' = "Presets"
    /\ deliver' = MaxDeliver
    /\ pc' = "resp"
    /\ UNCHANGED <<fmt, val, src, raw, sink, before, enc, dec, command,
                   variant, failAt, writeErr, writes, ioErr, reads, got, readBuf, detected,
                   asked,
                   session,
                   results>>

NextPresetsLoop == SendCommand \/ EchoPresets \/ GetResponse

SpecPresetsLoop == InitPresetsLoop /\ [][NextPresetsLoop]_vars

----------------------------------------------------------------------------
(* Specification of variant autodetection: one variant_for_max_voltage     *)
(* call, directly or through Capabilities::variant                         *)

MaxDetectTenths == 1000

\* negative voltages whose magnitude lies in or next to a band
NegativeVolts == {17, 18, 27, 28, 36, 45, 46, 60, 69, 70}

\* every tenth of a volt with its f32 neighbours, negated band values, and
\* the values that are not voltages at all
DetectInputs ==
    { Draw(t, 10, u) : t \in 0..MaxDetectTenths, u \in (0 - MaxUlp)..MaxUlp }
    \cup { Special("neg", Neg(F32Div(n, 1))) : n \in NegativeVolts }
    \cup Specials

InitDetect ==
    /\ pc \in {"volt", "caps"}
    /\ \E i \in DetectInputs : val = i.val /\ src = i.src
    /\ detected = NoResult
    /\ fmt = ArgFormat(0, 0) /\ raw = <<>>
    /\ sink = <<>> /\ before = <<>>
    /\ enc = NoResult /\ dec = NoResult
    /\ variant = NoVariant
    /\ IdleCommand /\ IdleResponse

\* variant_for_max_voltage(val)
VariantForMaxVoltage ==
    /\ pc = "volt"
    /\ detected' = variant_for_max_voltage(val)
    /\ pc' = "detected"
    /\ UNCHANGED <<fmt, val, src, raw, sink, before, enc, dec, command,
                   variant, failAt, writeErr, writes, source, rtype, deliver, ioErr, reads, got,
                   readBuf,
                   asked,
                   session,
                   results>>

\* Capabilities { max_voltage: val, .. }.variant()
CapabilitiesVariant ==
    /\ pc = "caps"
    /\ detected' = variant_for_max_voltage(val)
    /\ pc' = "variant"
    /\ UNCHANGED <<fmt, val, src, raw, sink, before, enc, dec, command,
                   variant, failAt, writeErr, writes, source, rtype, deliver, ioErr, reads, got,
                   readBuf,
                   asked,
                   session,
                   results>>

NextDetect == VariantForMaxVoltage \/ CapabilitiesVariant

SpecDetect == InitDetect /\ [][NextDetect]_vars

----------------------------------------------------------------------------
(* Specification of several get_response calls on one source              *)

MaxCalls == 3

Nines(R) == [i \in 1..arg_bytes(R) |-> D9]

\* frames of exactly total_bytes(R) bytes: well-formed ones, one with "foo"
\* for the acknowledgement, one with '9' for the separator, and for Presets
\* one with a 7-byte chunk and one with a 2-byte first chunk
SessionFrames(R) ==
    WellFramed(R, SampleBlocks(R))
    \cup { Nines(R) \o Separator(R) \o <<102, 111, 111>> }
    \cup (IF arg_bytes(R) # 0 THEN { Nines(R) \o <<D9>> \o OK } ELSE {})
    \cup (IF R = "Presets"
          THEN { JoinOnes(<<7, 5, 6>>) \o <<CR>> \o OK,
                 JoinOnes(<<2, 8, 8>>) \o <<CR>> \o OK }
          ELSE {})

AllFrames ==
    UNION { { [R |-> R, bytes |-> b] : b \in SessionFrames(R) } :
            R \in ResponseTypes }

FewFrames ==
    { [R |-> "Unit", bytes |-> OK],
      [R |-> "Voltage", bytes |-> Digits3(123) \o <<CR>> \o OK],
      [R |-> "Voltage", bytes |-> Digits3(123) \o <<CR>> \o <<102, 111, 111>>],
      [R |-> "Current", bytes |-> Digits3(456) \o <<D9>> \o OK] }

SeqsOf(S, n) == [1..n -> S]

Sessions ==
    SeqsOf(AllFrames, 1) \cup SeqsOf(AllFrames, 2)
    \cup UNION { SeqsOf(FewFrames, n) : n \in 3..MaxCalls }

RECURSIVE Flatten(_)
\* the bytes of the frames, one behind the other
Flatten(fs) == IF fs = <<>> THEN <<>> ELSE Head(fs).bytes \o Flatten(Tail(fs))

InitSession ==
    /\ pc = "resp"
    /\ variant \in Variants
    /\ \/ /\ session \in [frames : Sessions, trail : { <<>> }]
          /\ deliver = MaxDeliver /\ ioErr = "none"
       \/ /\ session \in [frames : SeqsOf(AllFrames, 1),
                          trail : { <<>>, OK, <<D0>> }]
          /\ \/ deliver \in {1, 3, MaxDeliver} /\ ioErr = "none"
             \/ deliver = MaxDeliver /\ ioErr = "BrokenPipe"
    /\ source = Flatten(session.frames) \o session.trail
    /\ rtype = session.frames[1].R
    /\ results = <<>>
    /\ reads = 0 /\ got = 0 /\ readBuf = <<>> /\ asked = 0
    /\ sink = <<>> /\ before = <<>>
    /\ enc = NoResult /\ dec = NoResult
    /\ IdleCodec /\ IdleCommand /\ IdleDetect

\* the caller asks for the response to its next command
NextCall ==
    /\ pc = "got"
    /\ dec # Panic
    /\ Len(results) < Len(session.frames)
    /\ rtype' = session.frames[Len(results) + 1].R
    /\ pc' = "resp"
    /\ UNCHANGED <<fmt, val, src, raw, sink, before, enc, dec, command,
                   variant, failAt, writeErr, writes, source, deliver, ioErr,
                   reads, got, readBuf, detected, asked, session, results>>

\* expect_deserializes_to: after a decoded response, source.read(byte) with a
\* buffer of one byte
ProbeRead ==
    /\ pc = "got"
    /\ dec.tag = "Ok"
    /\ Len(results) = Len(session.frames)
    /\ asked' = 1
    /\ got' = Min(1, Min(Len(source), deliver))
    /\ readBuf' = SubSeq(source, 1, got')
    /\ source' = SubSeq(source, got' + 1, Len(source))
    /\ reads' = reads + 1
    /\ pc' = "probed"
    /\ UNCHANGED <<fmt, val, src, raw, sink, before, enc, dec, command,
                   variant, failAt, writeErr, writes, rtype, deliver, ioErr,
                   detected, session, results>>

NextSession == GetResponse \/ NextCall \/ ProbeRead

SpecSession == InitSession /\ [][NextSession]_vars

----------------------------------------------------------------------------
(* The whole library: any one of the call sequences                        *)

Init ==
    \/ InitCodec \/ InitCommand \/ InitResponse \/ InitPresetsLoop \/ InitDetect
    \/ InitSession

Next ==
    \/ NextCodec \/ NextCommand \/ NextResponse \/ EchoPresets \/ NextDetect
    \/ NextCall \/ ProbeRead

Spec == Init /\ [][Next]_vars

----------------------------------------------------------------------------
(* Properties of the numeric field codec                                   *)

AllDigits(s) == \A i \in 1..Len(s) : IsDigit(s[i])

\* val was drawn as the f32 nearest to a multiple of 10^-decimals
OnGrid ==
    /\ src.kind = "dec" /\ src.ulp = 0
    /\ (src.num * Pow10(fmt.decimals)) % src.den = 0

\* the multiple of 10^-decimals an on-grid val was drawn from
GridIndex == (src.num * Pow10(fmt.decimals)) \div src.den

\* C1 (as stated): for every descriptor and every value serialize_arg
\* accepts, on the grid of multiples of 10^-decimals or not, parse of the
\* encoded string returns exactly that value, and the encoded string has
\* exactly `digits` characters, all ASCII digits.
C1_RoundTripEveryAccepted ==
    pc = "roundtrip" =>
        /\ dec.tag = "Ok" /\ F32Eq(dec.val, val)
        /\ Len(sink) = fmt.digits /\ AllDigits(sink)

\* C1 (amended): every value that is the f32 nearest to k / 10^decimals,
\* 0 <= k <= 10^digits - 1, is accepted and parse of its encoded string
\* returns exactly that value; for every accepted value, on the grid or not,
\* the encoded string has exactly `digits` characters, all ASCII digits, and
\* parse of it succeeds.
C1_RoundTripOnGrid ==
    /\ pc = "encoded" /\ OnGrid /\ GridIndex <= Pow10(fmt.digits) - 1
           => enc.tag = "Ok"
    /\ pc = "roundtrip" =>
           /\ Len(sink) = fmt.digits /\ AllDigits(sink)
           /\ dec.tag = "Ok"
           /\ OnGrid => dec.val = val

\* 99.99 at (2,4) went through "9999" and came back as itself
C1_Witness ==
    /\ pc = "roundtrip" /\ fmt = ArgFormat(2, 4)
    /\ OnGrid /\ GridIndex = 9999
    /\ sink = <<D9, D9, D9, D9>> /\ dec = Ok(val)

\* the f32 the expression (10^digits - 1) / 10^decimals evaluates to
Largest(f) == F32Div(Pow10(f.digits) - 1, Pow10(f.decimals))

\* v is NaN, +infinity, -infinity, negative, or greater than Largest(f)
Unrepresentable(f, v) ==
    \/ v.k = "nan"
    \/ v.k = "inf"
    \/ v.k = "fin" /\ v.s = 1 /\ v.m > 0
    \/ v.k = "fin" /\ v.s = 0 /\ MagLt(Largest(f), v)

\* the argument fields a command declares, in order, with their descriptors
Fields(c, psu) ==
    LET V(v) == [f |-> ArgFormat(psu.voltage_decimals, 3), v |-> v]
        I(v) == [f |-> ArgFormat(psu.current_decimals, 3), v |-> v]
        N(n) == [f |-> ArgFormat(0, 1), v |-> IntToF32(n)]
    IN  CASE c.name \in {"SetVoltage", "SetVoltageLimit"} -> <<V(c.v)>>
          [] c.name \in {"SetCurrent", "SetCurrentLimit"} -> <<I(c.v)>>
          [] c.name = "SetOutput" -> <<N(OutputState_arg_val(c.state))>>
          [] c.name = "SelectPreset" -> <<N(PresetIndex_arg_val(c.index))>>
          [] c.name = "SetPresets" ->
                <<V(c.p[1].voltage), I(c.p[1].current),
                  V(c.p[2].voltage), I(c.p[2].current),
                  V(c.p[3].voltage), I(c.p[3].current)>>
          [] OTHER -> <<>>

Offending(c, psu) ==
    { i \in DOMAIN Fields(c, psu) :
        Unrepresentable(Fields(c, psu)[i].f, Fields(c, psu)[i].v) }

FirstOffending(c, psu) ==
    CHOOSE i \in Offending(c, psu) : \A j \in Offending(c, psu) : i <= j

\* C2: serialize_arg fails with ValueUnrepresentable, carrying the value,
\* exactly for the values that are NaN, +-infinity, negative or greater than
\* (10^digits - 1) / 10^decimals (the comparison and the quotient being
\* f32), and succeeds for every other value; a command carrying such a value
\* in any field fails with ValueUnrepresentable carrying the first such
\* value when the sink accepts every write, and no command fails with
\* ValueUnrepresentable otherwise.
C2_UnrepresentableExactly ==
    /\ pc \in {"encoded", "roundtrip"} =>
           IF Unrepresentable(fmt, val)
           THEN enc = ValueUnrepresentable(val) /\ sink = <<>>
           ELSE enc = CmdOk
    /\ pc = "sent" =>
           /\ enc.tag = "ValueUnrepresentable" =>
                  /\ Offending(command, variant) # {}
                  /\ enc.val = Fields(command, variant)
                                   [FirstOffending(command, variant)].v
           /\ failAt = 0 /\ Offending(command, variant) # {} =>
                  enc.tag = "ValueUnrepresentable"
           /\ failAt = 0 /\ Offending(command, variant) = {} => enc = CmdOk

\* the f32 next above 99.9 was refused at (1,3), and nothing was written
C2_Witness ==
    /\ pc = "encoded" /\ fmt = ArgFormat(1, 3)
    /\ val = NextUp(Largest(fmt))
    /\ enc = ValueUnrepresentable(val) /\ sink = <<>>

\* the scaled value: the f32 product value * 10^decimals
Scaled == F32Mul(val, Pow10(fmt.decimals))

\* n is the integer nearest to the non-negative finite p, ties away from zero
IsRoundOf(n, p) ==
    IF p.m = 0 THEN n = 0
    ELSE IF p.e >= 0 THEN n = p.m * Pow2(p.e)
    ELSE IF 0 - p.e > MantBits THEN n = 0
    ELSE LET q == p.m \div Pow2(0 - p.e)
             r == p.m % Pow2(0 - p.e)
         IN  /\ n \in {q, q + 1}
             /\ n = q + 1 <=> 2 * r >= Pow2(0 - p.e)

\* val was drawn as the f32 nearest to num / den
Drawn(num, den) == src = [kind |-> "dec", num |-> num, den |-> den, ulp |-> 0]

\* C3: for every accepted value serialize_arg writes exactly `digits` ASCII
\* digits, the decimal digits of round(value * 10^decimals) left-padded with
\* '0', the product being the f32 product and the rounding to nearest with
\* ties away from zero; the integer never exceeds 10^digits - 1.  At (1,3):
\* 12.3 -> "123", 0.1 -> "001", 8.21 -> "082", 12.99 -> "130".
C3_WritesRoundedScaled ==
    pc \in {"encoded", "roundtrip"} /\ enc.tag = "Ok" =>
        /\ Len(sink) = fmt.digits /\ AllDigits(sink)
        /\ IsRoundOf(DigitsValue(sink, 0), Scaled)
        /\ DigitsValue(sink, 0) <= Pow10(fmt.digits) - 1
        /\ fmt = ArgFormat(1, 3) =>
               /\ Drawn(123, 10) => sink = <<49, 50, 51>>
               /\ Drawn(1, 10) => sink = <<48, 48, 49>>
               /\ Drawn(821, 100) => sink = <<48, 56, 50>>
               /\ Drawn(1299, 100) => sink = <<49, 51, 48>>

\* 12.99 at (1,3) was written as "130"
C3_Witness ==
    /\ pc = "encoded" /\ enc.tag = "Ok" /\ fmt = ArgFormat(1, 3)
    /\ Drawn(1299, 100) /\ sink = <<49, 51, 48>>

\* C4: parse returns MalformedResponse for every slice whose length is not
\* `digits` and for every slice of length `digits` holding any byte other
\* than an ASCII digit ('+', '-', '.', letters, whitespace, '\r' included).
C4_ParseRejectsNonDigits ==
    pc = "parsed" /\ (Len(raw) # fmt.digits \/ ~AllDigits(raw)) =>
        dec = MalformedResponse

\* what parse does instead: the slices it turns away are those of another
\* length, those holding a byte that is neither a digit nor a leading '+',
\* and a lone '+'
C4_ParseRejects ==
    pc = "parsed" =>
        (dec = MalformedResponse <=>
            \/ Len(raw) # fmt.digits
            \/ \E i \in 2..Len(raw) : ~IsDigit(raw[i])
            \/ Len(raw) >= 1 /\ ~IsDigit(raw[1]) /\ raw[1] # PLUS
            \/ Len(raw) = 1 /\ raw[1] = PLUS)

----------------------------------------------------------------------------
(* Properties of command serialization                                     *)

\* what the call appended to the sink
Written == SubSeq(sink, Len(before) + 1, Len(sink))

\* C5: when send_command fails with ValueUnrepresentable the sink holds
\* exactly the bytes it held before the call, whichever the command, the
\* variant and the position of the failing field.
C5_NoPartialOutput ==
    pc = "sent" /\ enc.tag = "ValueUnrepresentable" => sink = before

\* what the sink holds instead: the function code and the fields before the
\* failing one
C5_PartialOutput ==
    pc = "sent" /\ enc.tag = "ValueUnrepresentable" =>
        /\ SubSeq(sink, 1, Len(before)) = before
        /\ SubSeq(Written, 1, 4) = FUNCTION(command)
        /\ Len(Written) = 4 + 3 * (FirstOffending(command, variant) - 1)

\* the encoding of one field
Encoded(fld) == FormatZeroPad(output_val(fld.f, fld.v).v, fld.f.digits)

RECURSIVE EncodedAll(_)
\* the encodings of a sequence of fields, one after the other
EncodedAll(flds) ==
    IF flds = <<>> THEN <<>> ELSE Encoded(Head(flds)) \o EncodedAll(Tail(flds))

\* the bytes of the six parameterless queries
QueryBytes(name) ==
    CASE name = "GetSettings" -> <<71, 69, 84, 83, 13>>        \* "GETS\r"
      [] name = "GetStatus" -> <<71, 69, 84, 68, 13>>          \* "GETD\r"
      [] name = "GetVoltageLimit" -> <<71, 79, 86, 80, 13>>    \* "GOVP\r"
      [] name = "GetCurrentLimit" -> <<71, 79, 67, 80, 13>>    \* "GOCP\r"
      [] name = "GetCapabilities" -> <<71, 77, 65, 88, 13>>    \* "GMAX\r"
      [] name = "GetPresets" -> <<71, 69, 84, 77, 13>>         \* "GETM\r"

\* C6: a successful send_command appends to the sink exactly the command's
\* 4-character function code, its encoded fields in declared order with
\* nothing between them, and one '\r'; the six queries append exactly
\* "GETS\r", "GETD\r", "GOVP\r", "GOCP\r", "GMAX\r", "GETM\r" on every
\* variant, succeed whenever the sink accepts the writes, and never fail with
\* ValueUnrepresentable.
C6_WireFormat ==
    pc = "sent" =>
        /\ enc = CmdOk =>
               /\ Len(FUNCTION(command)) = 4
               /\ sink = before \o FUNCTION(command)
                           \o EncodedAll(Fields(command, variant)) \o <<13>>
               /\ \A i \in 5..(Len(Written) - 1) : IsDigit(Written[i])
        /\ command.name \in QueryNames =>
               /\ enc.tag # "ValueUnrepresentable"
               /\ failAt = 0 => enc = CmdOk
               /\ enc = CmdOk => Written = QueryBytes(command.name)

\* SetVoltage(12.3) appended "VOLT123\r" behind an earlier "GETS\r"
C6_Witness ==
    /\ pc = "sent" /\ enc = CmdOk
    /\ command = SetVoltage(F32Div(123, 10))
    /\ before = <<71, 69, 84, 83, 13>>
    /\ sink = <<71, 69, 84, 83, 13, 86, 79, 76, 84, 49, 50, 51, 13>>

\* C7: a successfully serialized command is at most 23 bytes long: exactly 5
\* for the six queries, 6 for SetOutput and SelectPreset, 8 for SetVoltage,
\* SetVoltageLimit, SetCurrent and SetCurrentLimit, and 23 for SetPresets.
C7_CommandLengths ==
    pc = "sent" /\ enc = CmdOk =>
        /\ Len(sink) = Len(before) + Len(Written)
        /\ Len(Written) <= 23
        /\ command.name \in QueryNames => Len(Written) = 5
        /\ command.name \in {"SetOutput", "SelectPreset"} => Len(Written) = 6
        /\ command.name \in {"SetVoltage", "SetVoltageLimit", "SetCurrent",
                             "SetCurrentLimit"} => Len(Written) = 8
        /\ command.name = "SetPresets" => Len(Written) = 23

\* a SetPresets whose six fields are all 0. was written in 23 bytes
C7_Witness ==
    /\ pc = "sent" /\ enc = CmdOk /\ command \in PresetCommands({Zero(0)})
    /\ before = <<>> /\ Len(sink) = 23

\* what SetOutput and SelectPreset put on the wire
FlagBytes(c) ==
    CASE c = SetOutput("On") -> <<83, 79, 85, 84, 48, 13>>         \* "SOUT0\r"
      [] c = SetOutput("Off") -> <<83, 79, 85, 84, 49, 13>>        \* "SOUT1\r"
      [] c = SelectPreset("One") -> <<82, 85, 78, 77, 48, 13>>     \* "RUNM0\r"
      [] c = SelectPreset("Two") -> <<82, 85, 78, 77, 49, 13>>     \* "RUNM1\r"
      [] c = SelectPreset("Three") -> <<82, 85, 78, 77, 50, 13>>   \* "RUNM2\r"

\* C8: on every variant SetOutput(On) serializes to "SOUT0\r", SetOutput(Off)
\* to "SOUT1\r" and SelectPreset(One/Two/Three) to "RUNM0\r" / "RUNM1\r" /
\* "RUNM2\r"; neither command fails with ValueUnrepresentable, and both
\* succeed whenever the sink accepts the writes.
C8_FlagCommands ==
    pc = "sent" /\ command.name \in {"SetOutput", "SelectPreset"} =>
        /\ enc.tag # "ValueUnrepresentable"
        /\ failAt = 0 => enc = CmdOk
        /\ enc = CmdOk => sink = before \o FlagBytes(command)

\* SetOutput(On) was written as "SOUT0\r" for the BK1685B
C8_Witness ==
    /\ pc = "sent" /\ enc = CmdOk /\ variant = BK1685B
    /\ command = SetOutput("On") /\ sink = <<83, 79, 85, 84, 48, 13>>

\* "PROM"
Prom == <<80, 82, 79, 77>>

\* "011022033044055066" and "050010125030150005", "050100125300150055"
Digits_011022 ==
    <<48, 49, 49, 48, 50, 50, 48, 51, 51, 48, 52, 52, 48, 53, 53, 48, 54, 54>>
Digits_050010 ==
    <<48, 53, 48, 48, 49, 48, 49, 50, 53, 48, 51, 48, 49, 53, 48, 48, 48, 53>>
Digits_050100 ==
    <<48, 53, 48, 49, 48, 48, 49, 50, 53, 51, 48, 48, 49, 53, 48, 48, 53, 53>>

\* the 3-digit encoding of v with the given number of decimals
Field3(decimals, v) == Encoded([f |-> ArgFormat(decimals, 3), v |-> v])

\* C9: SetPresets(p1, p2, p3) with six representable values serializes to
\* "PROM", 18 digits and '\r': the 3-digit fields p1.voltage, p1.current,
\* p2.voltage, p2.current, p3.voltage, p3.current in that order, voltages
\* with the variant's voltage_decimals and currents with its
\* current_decimals; current 0.22 on the BK1685B and current 2.2 on the
\* BK1687B / BK1688B both give "022".
C9_SetPresetsFormat ==
    pc = "sent" /\ command.name = "SetPresets" =>
        /\ failAt = 0 /\ Offending(command, variant) = {} => enc = CmdOk
        /\ enc = CmdOk =>
               /\ Len(Written) = 4 + 18 + 1
               /\ SubSeq(Written, 1, 4) = Prom
               /\ AllDigits(SubSeq(Written, 5, 22))
               /\ Written[23] = 13
               /\ \A k \in 1..3 :
                      /\ SubSeq(Written, 6 * k - 1, 6 * k + 1)
                             = Field3(variant.voltage_decimals,
                                      command.p[k].voltage)
                      /\ SubSeq(Written, 6 * k + 2, 6 * k + 4)
                             = Field3(variant.current_decimals,
                                      command.p[k].current)
                      /\ (variant = BK1685B
                          /\ command.p[k].current = F32Div(22, 100))
                             => SubSeq(Written, 6 * k + 2, 6 * k + 4)
                                    = <<48, 50, 50>>
                      /\ (variant \in {BK1687B, BK1688B}
                          /\ command.p[k].current = F32Div(22, 10))
                             => SubSeq(Written, 6 * k + 2, 6 * k + 4)
                                    = <<48, 50, 50>>
               /\ (variant \in {BK1687B, BK1688B}
                   /\ command = SetPresets(Point(11, 220), Point(33, 440),
                                           Point(55, 660)))
                      => Written = Prom \o Digits_011022 \o <<13>>
               /\ (variant \in {BK1687B, BK1688B}
                   /\ command = SetPresets(Point(50, 100), Point(125, 300),
                                           Point(150, 50)))
                      => Written = Prom \o Digits_050010 \o <<13>>
               /\ (variant = BK1685B
                   /\ command = SetPresets(Point(11, 22), Point(33, 44),
                                           Point(55, 66)))
                      => Written = Prom \o Digits_011022 \o <<13>>
               /\ (variant = BK1685B
                   /\ command = SetPresets(Point(50, 100), Point(125, 300),
                                           Point(150, 55)))
                      => Written = Prom \o Digits_050100 \o <<13>>

\* the presets (1.1, .22), (3.3, .44), (5.5, .66) were written for the
\* BK1685B as "PROM011022033044055066\r"
C9_Witness ==
    /\ pc = "sent" /\ enc = CmdOk /\ variant = BK1685B
    /\ command = SetPresets(Point(11, 22), Point(33, 44), Point(55, 66))
    /\ sink = Prom \o Digits_011022 \o <<13>>

----------------------------------------------------------------------------
(* Properties of response deserialization                                  *)

\* C10: for every response type and variant, a read that hands over 0 bytes
\* makes get_response return NoResponse, a read that hands over n bytes with
\* 0 < n < total_bytes makes it return MalformedResponse (a bare "OK\r" for
\* a response type that carries arguments included), and get_response reads
\* once, whatever the count.
C10_ReadCount ==
    pc = "got" =>
        /\ reads = 1
        /\ ioErr = "none" /\ got = 0 => dec = NoResponse
        /\ ioErr = "none" /\ 0 < got /\ got < total_bytes(rtype)
               => dec = MalformedResponse
        /\ ioErr = "none" /\ dec = NoResponse => got = 0

\* a bare "OK\r" where a Settings response was due: 3 of the 10 bytes, one
\* read, MalformedResponse
C10_Witness ==
    /\ pc = "got" /\ rtype = "Settings" /\ ioErr = "none"
    /\ got = 3 /\ source = <<>> /\ reads = 1
    /\ dec = MalformedResponse

AckRead == SubSeq(readBuf, Len(readBuf) - 2, Len(readBuf))

\* C12: when the read hands over exactly total_bytes and the last three of
\* them are not "OK\r", get_response returns MalformedResponse whatever the
\* argument bytes are; for a response type without arguments get_response
\* succeeds exactly when the three bytes read are "OK\r".
C12_RejectsBadAck ==
    pc = "got" /\ ioErr = "none" =>
        /\ (got = total_bytes(rtype) /\ AckRead # <<79, 75, 13>>)
              => dec = MalformedResponse
        /\ arg_bytes(rtype) = 0
              => (dec.tag = "Ok" <=> readBuf = <<79, 75, 13>>)

\* a Settings response with good argument bytes acknowledged by "OK\n"
C12_Witness ==
    /\ pc = "got" /\ rtype = "Settings" /\ ioErr = "none"
    /\ got = total_bytes("Settings")
    /\ AllDigits(SubSeq(readBuf, 1, 6))
    /\ SubSeq(readBuf, 7, 10) = <<13, 79, 75, 10>>
    /\ dec = MalformedResponse

\* a response without arguments whose three bytes are "ok\r"
C12_WitnessAck ==
    /\ pc = "got" /\ arg_bytes(rtype) = 0 /\ ioErr = "none"
    /\ readBuf = <<111, 107, 13>>
    /\ dec = MalformedResponse

\* the bytes the source held when get_response was called
Frame == readBuf \o source

\* Frame is "OK\r" with n bytes in front of it
EndsWithOk(n) ==
    /\ Len(Frame) = n + 3
    /\ SubSeq(Frame, n + 1, n + 3) = <<79, 75, 13>>

\* the separator of Frame is missing, is a byte other than '\r', or is
\* doubled; without arguments, one byte stands in front of "OK\r"
SeparatorMissing == arg_bytes(rtype) > 0 /\ EndsWithOk(arg_bytes(rtype))
SeparatorWrong ==
    /\ arg_bytes(rtype) > 0 /\ EndsWithOk(arg_bytes(rtype) + 1)
    /\ Frame[arg_bytes(rtype) + 1] # 13
SeparatorDoubled ==
    /\ arg_bytes(rtype) > 0 /\ EndsWithOk(arg_bytes(rtype) + 2)
    /\ Frame[arg_bytes(rtype) + 1] = 13 /\ Frame[arg_bytes(rtype) + 2] = 13
ByteBeforeAck == arg_bytes(rtype) = 0 /\ EndsWithOk(1)

\* C13: for a response type with arguments, a frame whose separator is
\* missing, is any byte other than '\r' (the digits '0' and '9' included) or
\* is doubled makes get_response return MalformedResponse; for a response
\* type without arguments, so does a frame with one byte in front of "OK\r".
C13_RejectsBadSeparator ==
    (pc = "got" /\ ioErr = "none" /\ deliver >= total_bytes(rtype)) =>
        /\ SeparatorMissing => dec = MalformedResponse
        /\ SeparatorWrong => dec = MalformedResponse
        /\ SeparatorDoubled => dec = MalformedResponse
        /\ ByteBeforeAck => dec = MalformedResponse

\* a Voltage response "123" "9" "OK\r": good digits, '9' as the separator
C13_Witness ==
    /\ pc = "got" /\ rtype = "Voltage" /\ ioErr = "none"
    /\ deliver >= total_bytes(rtype)
    /\ SeparatorWrong /\ Frame[4] = 57 /\ AllDigits(SubSeq(Frame, 1, 3))
    /\ dec = MalformedResponse

\* the chunks of the argument block of a Presets frame read whole
Chunks == split(SubSeq(readBuf, 1, arg_bytes("Presets")), <<>>)

\* a Presets frame was read whole, with separator and acknowledgement
PresetsFramed ==
    /\ pc = "got" /\ rtype = "Presets" /\ ioErr = "none"
    /\ got = total_bytes("Presets")
    /\ SubSeq(readBuf, arg_bytes("Presets") + 1, got) = <<13, 79, 75, 13>>

\* not exactly 3 chunks of exactly 6 bytes
IllStructured ==
    \/ Len(Chunks) # 3
    \/ \E i \in 1..Len(Chunks) : Len(Chunks[i]) # 6

\* the first chunk whose length is not 6 is one of the first three and is
\* shorter than the 3 voltage digits, and the chunks before it decode
ShortChunkFirst ==
    \E i \in 1..Min(3, Len(Chunks)) :
        /\ Len(Chunks[i]) < 3
        /\ \A j \in 1..(i - 1) :
               /\ Len(Chunks[j]) = 6
               /\ AllDigits(Chunks[j])

\* C14 (as stated): every ill-structured 20-byte argument block (fewer or
\* more than 3 chunks, a chunk longer than 6, shorter than 6, shorter than 3
\* or empty) makes the Presets decode return MalformedResponse and nothing
\* else.
C14_RejectsIllStructured ==
    PresetsFramed /\ IllStructured => dec = MalformedResponse

\* what the decode does with an ill-structured block: the slice::split_at of
\* parse_operating_point panics on a chunk shorter than 3 bytes when that
\* chunk is reached, and every other block is refused with MalformedResponse
C14_RejectsOrPanics ==
    PresetsFramed /\ IllStructured =>
        /\ ShortChunkFirst => dec = Panic
        /\ ~ShortChunkFirst => dec = MalformedResponse

\* the block "11\r11111111\r11111111": the first chunk has 2 bytes
C14_PanicReached ==
    /\ PresetsFramed /\ IllStructured
    /\ Len(Chunks) = 3 /\ Len(Chunks[1]) = 2
    /\ dec = Panic

\* a Status frame was read whole, with separator and acknowledgement
StatusFramed ==
    /\ pc = "got" /\ rtype = "Status" /\ ioErr = "none"
    /\ got = total_bytes("Status")
    /\ SubSeq(readBuf, arg_bytes("Status") + 1, got) = <<13, 79, 75, 13>>

VoltageRaw == SubSeq(readBuf, 1, 4)
CurrentRaw == SubSeq(readBuf, 5, 8)
ModeRaw == readBuf[9]

\* the f32 nearest to n/100 for the n written by the digits of s
Hundredths(s) == F32Div(DigitsValue(s, 0), 100)

StatusOf(v, c, m) ==
    [tag |-> "Ok",
     val |-> [t |-> "Status", voltage |-> v, current |-> c,
              mode |-> IF m = 48 THEN "ConstantVoltage"
                       ELSE "ConstantCurrent"]]

\* C15 (as stated): whatever the variant, a Status block VVVVCCCCm decodes
\* to voltage VVVV/100, current CCCC/100 and mode ConstantVoltage for
\* m = '0', ConstantCurrent for m = '1'; every other mode byte and every
\* non-digit among the first 8 bytes gives MalformedResponse.
C15_StatusDecode ==
    StatusFramed =>
        /\ (AllDigits(SubSeq(readBuf, 1, 8)) /\ ModeRaw \in {48, 49})
              => dec = StatusOf(Hundredths(VoltageRaw),
                                Hundredths(CurrentRaw), ModeRaw)
        /\ ModeRaw \notin {48, 49} => dec = MalformedResponse
        /\ ~AllDigits(SubSeq(readBuf, 1, 8)) => dec = MalformedResponse

\* four digits, or '+' and three digits
Accepted4(s) == AllDigits(s) \/ (s[1] = 43 /\ AllDigits(Tail(s)))
Unsigned(s) == IF s[1] = 43 THEN Tail(s) ELSE s

\* what the Status decode does: a field made of '+' and three digits is
\* read as those three digits; the rest is as stated
C15_StatusDecodeSigned ==
    StatusFramed =>
        IF Accepted4(VoltageRaw) /\ Accepted4(CurrentRaw)
           /\ ModeRaw \in {48, 49}
        THEN dec = StatusOf(Hundredths(Unsigned(VoltageRaw)),
                            Hundredths(Unsigned(CurrentRaw)), ModeRaw)
        ELSE dec = MalformedResponse

\* "1234+5670" decodes to 12.34 V, 5.67 A, ConstantVoltage
C15_SignAccepted ==
    /\ StatusFramed
    /\ VoltageRaw = <<49, 50, 51, 52>> /\ CurrentRaw = <<43, 53, 54, 55>>
    /\ ModeRaw = 48
    /\ dec = StatusOf(F32Div(1234, 100), F32Div(567, 100), 48)

\* C16: get_response::<Capabilities> returns the same outcome (the same
\* value or the same error) for a frame whichever of BK1685B, BK1687B and
\* BK1688B is passed as the variant: the outcome of the call made equals the
\* outcome the call would have had with each of the three variants.
C16_IgnoresVariant ==
    [][(pc = "resp" /\ rtype = "Capabilities" /\ ioErr = "none") =>
          \A v \in {BK1685B, BK1687B, BK1688B} :
              dec' = classify("Capabilities", v, read_count("Capabilities"))]_vars

\* "601501" read with the 36 V variant: 60.1 V and 5.01 A, the precision of
\* the 60 V variant
C16_Witness ==
    /\ pc = "got" /\ rtype = "Capabilities" /\ ioErr = "none"
    /\ variant = BK1687B
    /\ readBuf = <<54, 48, 49, 53, 48, 49, 13, 79, 75, 13>>
    /\ dec = [tag |-> "Ok",
              val |-> [t |-> "Capabilities", max_voltage |-> F32Div(601, 10),
                       max_current |-> F32Div(501, 100)]]

\* a Capabilities frame was read whole, with separator and acknowledgement
CapabilitiesFramed ==
    /\ pc = "got" /\ rtype = "Capabilities" /\ ioErr = "none"
    /\ got = total_bytes("Capabilities")
    /\ SubSeq(readBuf, arg_bytes("Capabilities") + 1, got) = <<13, 79, 75, 13>>

\* the numbers written by the two fields of an all-digit block VVVCCC
VVV == DigitsValue(SubSeq(readBuf, 1, 3), 0)
CCC == DigitsValue(SubSeq(readBuf, 4, 6), 0)

CapabilitiesOf(v, c) ==
    [tag |-> "Ok",
     val |-> [t |-> "Capabilities", max_voltage |-> v, max_current |-> c]]

C17_Examples ==
    CapabilitiesFramed =>
        /\ SubSeq(readBuf, 1, 6) = <<54, 48, 49, 53, 48, 49>>
              => dec = CapabilitiesOf(F32Div(601, 10), F32Div(501, 100))
        /\ SubSeq(readBuf, 1, 6) = <<51, 54, 49, 49, 48, 49>>
              => dec = CapabilitiesOf(F32Div(361, 10), F32Div(101, 10))
        /\ SubSeq(readBuf, 1, 6) = <<49, 56, 49, 50, 48, 49>>
              => dec = CapabilitiesOf(F32Div(181, 10), F32Div(201, 10))

----------------------------------------------------------------------------
(* Properties of variant autodetection                                     *)

\* x >= n for a finite x >= 0 and a natural 0 < n <= 100, on the exact values:
\* x = m * 2^e is at least 2^23 when e >= 0 and below 1 when e < -23
GeNat(x, n) ==
    IF x.m = 0 THEN FALSE
    ELSE IF x.e >= 0 THEN TRUE
    ELSE IF x.e < 0 - (MantBits - 1) THEN FALSE
    ELSE x.m >= n * Pow2(0 - x.e)

\* lo <= x < hi on the exact values; no NaN, infinity or negative x is within
Within(x, lo, hi) ==
    /\ x.k = "fin" /\ (x.s = 0 \/ x.m = 0)
    /\ GeNat(x, lo) /\ ~GeNat(x, hi)

\* the call has returned
Detected == pc \in {"detected", "variant"}

\* C18: variant_for_max_voltage(v), called directly or as
\* Capabilities::variant, returns BK1688B iff 18 <= v < 28, BK1687B iff
\* 36 <= v < 46, BK1685B iff 60 <= v < 70 and none for every other voltage;
\* each lower bound is included, each upper bound excluded, and every f32
\* gives one of these four results.
C18_Bands ==
    Detected =>
        /\ detected \in {BK1685B, BK1687B, BK1688B, NoVariant}
        /\ detected = BK1688B <=> Within(val, 18, 28)
        /\ detected = BK1687B <=> Within(val, 36, 46)
        /\ detected = BK1685B <=> Within(val, 60, 70)
        /\ (detected = NoVariant) <=>
               ~(Within(val, 18, 28) \/ Within(val, 36, 46)
                 \/ Within(val, 60, 70))
        /\ (src.kind = "dec" /\ src.ulp = 0) =>
               /\ detected = BK1688B <=> (180 <= src.num /\ src.num < 280)
               /\ detected = BK1687B <=> (360 <= src.num /\ src.num < 460)
               /\ detected = BK1685B <=> (600 <= src.num /\ src.num < 700)
               /\ src.num \in {0, 170, 280, 299, 350, 460, 472, 587, 700,
                               721, 999}
                      => detected = NoVariant

\* 28.0, the excluded upper bound of the lowest band, gives none
C18_Witness ==
    /\ pc = "detected" /\ Drawn(280, 10)
    /\ detected = NoVariant

\* 60.0 through Capabilities::variant gives the BK1685B
C18_WitnessLower ==
    /\ pc = "variant" /\ Drawn(600, 10)
    /\ detected = BK1685B

\* the registry entries whose band nominal <= v < nominal + 10 holds val
Matching ==
    { s \in {BK1685B, BK1687B, BK1688B} :
        Within(val, s.nominal_max_voltage, s.nominal_max_voltage + 10) }

\* the six orders in which the registry can be iterated
Orders ==
    { o \in [1..3 -> {BK1685B, BK1687B, BK1688B}] :
        \A i, j \in 1..3 : i # j => o[i] # o[j] }

\* the loop of variant_for_max_voltage over the registry in the order o
FirstMatch(o, voltage) ==
    IF InBand(voltage, o[1]) THEN o[1]
    ELSE IF InBand(voltage, o[2]) THEN o[2]
    ELSE IF InBand(voltage, o[3]) THEN o[3]
    ELSE NoVariant

\* C19: the bands of the three registry entries are pairwise disjoint: for
\* every voltage at most one entry satisfies nominal_max_voltage <= voltage
\* < nominal_max_voltage + 10, so variant_for_max_voltage returns the same
\* result in whatever order the registry is iterated.
C19_BandsDisjoint ==
    Detected =>
        /\ Cardinality(Matching) <= 1
        /\ \A s \in Matching : detected = s
        /\ Matching = {} => detected = NoVariant
        /\ \A o \in Orders : FirstMatch(o, val) = detected

\* 45.9, just below the top of the middle band: the BK1687B and no other
C19_Witness ==
    /\ pc = "detected" /\ Drawn(459, 10)
    /\ Matching = {BK1687B}
    /\ detected = BK1687B

----------------------------------------------------------------------------
(* Properties of the presets loop                                          *)

\* the 18 digits SetPresets wrote after "PROM"
PromDigits == SubSeq(sink, Len(before) + 5, Len(before) + 22)

\* the six values of the command, in the order of the wire
PresetValues ==
    <<command.p[1].voltage, command.p[1].current, command.p[2].voltage,
      command.p[2].current, command.p[3].voltage, command.p[3].current>>

\* the i-th value is the multiple of the field resolution its digits denote
FieldOnGrid(i) ==
    PresetValues[i] =
        F32Div(DigitsValue(SubSeq(PromDigits, 3 * i - 2, 3 * i), 0),
               Pow10(IF i % 2 = 1 THEN variant.voltage_decimals
                     ELSE variant.current_decimals))

\* get_response::<Presets> has returned on the answer to a SetPresets
LoopClosed ==
    /\ pc = "got" /\ rtype = "Presets"
    /\ command # NoCommand /\ command.name = "SetPresets" /\ enc = CmdOk

C20_OffGridDiffers ==
    /\ LoopClosed /\ variant = BK1687B
    /\ command = SetPresets(Point(50, 100), Point(125, 300), Point(150, 55))
    /\ ~FieldOnGrid(6)
    /\ dec.tag = "Ok" /\ dec.val.p # command.p

\* a frame of response type R was read whole, with separator and
\* acknowledgement
Framed(R) ==
    /\ pc = "got" /\ rtype = R /\ ioErr = "none"
    /\ got = total_bytes(R)
    /\ SubSeq(readBuf, arg_bytes(R) + 1, got) = <<13, 79, 75, 13>>

\* the f32 nearest to n / 10^decimals for the n written by the digits of s
Scaled10(s, decimals) == F32Div(DigitsValue(s, 0), Pow10(decimals))

SettingsOf(v, c) ==
    [tag |-> "Ok", val |-> [t |-> "Settings", voltage |-> v, current |-> c]]

\* C21 (as stated): in a well-formed frame Voltage decodes its digits NNN as
\* NNN/10^voltage_decimals and Current as NNN/10^current_decimals of the
\* variant supplied (Current "999": 99.9 on the BK1687B / BK1688B, 9.99 on
\* the BK1685B); Settings decodes bytes 0..3 as the voltage and bytes 3..6 as
\* the current with the same descriptors, and a non-digit in either
\* sub-field gives MalformedResponse.
C21_VariantDecode ==
    /\ (Framed("Voltage") /\ AllDigits(SubSeq(readBuf, 1, 3))) =>
           dec = [tag |-> "Ok",
                  val |-> [t |-> "Voltage",
                           v |-> Scaled10(SubSeq(readBuf, 1, 3),
                                          variant.voltage_decimals)]]
    /\ (Framed("Current") /\ AllDigits(SubSeq(readBuf, 1, 3))) =>
           dec = [tag |-> "Ok",
                  val |-> [t |-> "Current",
                           v |-> Scaled10(SubSeq(readBuf, 1, 3),
                                          variant.current_decimals)]]
    /\ (Framed("Current") /\ SubSeq(readBuf, 1, 3) = <<57, 57, 57>>) =>
           dec.val.v = IF variant = BK1685B THEN F32Div(999, 100)
                       ELSE F32Div(999, 10)
    /\ (Framed("Settings") /\ AllDigits(SubSeq(readBuf, 1, 6))) =>
           dec = SettingsOf(Scaled10(SubSeq(readBuf, 1, 3),
                                     variant.voltage_decimals),
                            Scaled10(SubSeq(readBuf, 4, 6),
                                     variant.current_decimals))
    /\ (Framed("Settings") /\ ~AllDigits(SubSeq(readBuf, 1, 6))) =>
           dec = MalformedResponse

\* three digits, or '+' and two digits
Accepted3(s) == AllDigits(s) \/ (s[1] = 43 /\ AllDigits(Tail(s)))

\* what the Settings decode does: a sub-field made of '+' and two digits is
\* read as those two digits; the rest is as stated
C21_VariantDecodeSigned ==
    /\ (Framed("Voltage") /\ AllDigits(SubSeq(readBuf, 1, 3))) =>
           dec = [tag |-> "Ok",
                  val |-> [t |-> "Voltage",
                           v |-> Scaled10(SubSeq(readBuf, 1, 3),
                                          variant.voltage_decimals)]]
    /\ (Framed("Current") /\ AllDigits(SubSeq(readBuf, 1, 3))) =>
           dec = [tag |-> "Ok",
                  val |-> [t |-> "Current",
                           v |-> Scaled10(SubSeq(readBuf, 1, 3),
                                          variant.current_decimals)]]
    /\ Framed("Settings") =>
           IF Accepted3(SubSeq(readBuf, 1, 3)) /\ Accepted3(SubSeq(readBuf, 4, 6))
           THEN dec = SettingsOf(Scaled10(Unsigned(SubSeq(readBuf, 1, 3)),
                                          variant.voltage_decimals),
                                 Scaled10(Unsigned(SubSeq(readBuf, 4, 6)),
                                          variant.current_decimals))
           ELSE dec = MalformedResponse

\* "+12456" on the BK1685B decodes to 1.2 V and 4.56 A
C21_SignAccepted ==
    /\ Framed("Settings") /\ variant = BK1685B
    /\ SubSeq(readBuf, 1, 6) = <<43, 49, 50, 52, 53, 54>>
    /\ dec = SettingsOf(F32Div(12, 10), F32Div(456, 100))

----------------------------------------------------------------------------
(* Properties of the failing sink                                          *)

\* the sink answered one of the writes of the call with an error
SinkFailed == pc = "sent" /\ failAt > 0 /\ writes >= failAt

C22_InterruptedRetried ==
    /\ SinkFailed /\ writeErr = "Interrupted" /\ failAt = 1
    /\ command = SetVoltage(F32Div(123, 10))
    /\ enc = CmdOk /\ writes = 4
    /\ Written = <<86, 79, 76, 84, 49, 50, 51, 13>>

C23_OneRead ==
    pc = "got" =>
        /\ reads = 1
        /\ asked = IF arg_bytes(rtype) = 0 THEN arg_bytes(rtype) + 3
                   ELSE arg_bytes(rtype) + 4
        /\ asked = CASE rtype = "Unit" -> 3
                     [] rtype \in {"Voltage", "Current"} -> 7
                     [] rtype \in {"Settings", "Capabilities"} -> 10
                     [] rtype = "Status" -> 13
                     [] rtype = "Presets" -> 24
        /\ got <= asked

\* a Status frame followed by more bytes: one read, asked for 13 bytes, and
\* 13 bytes taken
C23_Witness ==
    /\ pc = "got" /\ rtype = "Status" /\ ioErr = "none"
    /\ reads = 1 /\ asked = 13 /\ got = 13
    /\ Len(source) > 0
    /\ dec.tag = "Ok"


----------------------------------------------------------------------------
(* C24: one get_response call takes at most total_bytes bytes from the     *)
(* source, whatever its outcome, and exactly the first total_bytes bytes   *)
(* when it returns a value; when the source held one well-formed frame and *)
(* nothing else, the one-byte read that follows returns 0 bytes            *)

Taken == Len(source) - Len(source')

C24_Call ==
    (pc = "resp" /\ pc' = "got") =>
        /\ Taken <= total_bytes(rtype)
        /\ source' = SubSeq(source, Taken + 1, Len(source))
        /\ dec'.tag = "Ok" => Taken = total_bytes(rtype)

C24_Probe ==
    (/\ pc = "probed"
     /\ Len(session.frames) = 1
     /\ session.trail = <<>>) => got = 0 /\ source = <<>>

C24_ConsumesFrame == [][C24_Call]_vars /\ []C24_Probe

C24_Witness ==
    /\ pc = "probed" /\ got = 0 /\ asked = 1 /\ reads = 2
    /\ session.frames = <<[R |-> "Settings", bytes |-> Nines("Settings") \o <<CR>> \o OK]>>
    /\ session.trail = <<>>
    /\ dec.tag = "Ok"

C24_TrailLeft ==
    /\ pc = "probed" /\ got = 1 /\ readBuf = <<LetterO>>
    /\ session.trail = OK
    /\ source = <<LetterK, CR>>


----------------------------------------------------------------------------
(* C25: a SetPresets command with an unrepresentable value among its six   *)
(* fails with ValueUnrepresentable, at whichever position the value is and *)
(* whatever the other five are; the error carries the first such value in  *)
(* the order p1.voltage, p1.current, p2.voltage, p2.current, p3.voltage,   *)
(* p3.current; the fields before it are encoded and none after it. (A sink *)
(* that refuses a write made before that field is reached ends the call    *)
(* with its own error first.)                                              *)

\* the sink accepted the function code and the fields before field i
ReachedField(i) == failAt = 0 \/ failAt > i \/ writeErr = "Interrupted"

C25_PresetsUnrepresentable ==
    (pc = "sent" /\ command.name = "SetPresets"
        /\ Offending(command, variant) # {}) =>
        LET i == FirstOffending(command, variant)
            flds == Fields(command, variant)
        IN  /\ enc # CmdOk
            /\ ReachedField(i) =>
                   /\ enc = [tag |-> "ValueUnrepresentable", val |-> flds[i].v]
                   /\ Written = Prom \o EncodedAll(SubSeq(flds, 1, i - 1))
            /\ enc.tag = "ValueUnrepresentable" => ReachedField(i)

\* 100. as p3.current after five zeros: refused, the five zeros written
C25_Witness ==
    /\ pc = "sent" /\ command.name = "SetPresets"
    /\ \A k \in 1..5 : Fields(command, variant)[k].v = Zero(0)
    /\ command.p[3].current = F32Div(100, 1)
    /\ enc = [tag |-> "ValueUnrepresentable", val |-> F32Div(100, 1)]
    /\ Written = Prom \o [k \in 1..15 |-> D0]

\* 10. as p1.current of the 18V model, the other five values 0.: refused
C25_WitnessLowV ==
    /\ pc = "sent" /\ command.name = "SetPresets"
    /\ variant.current_decimals = 2
    /\ \A k \in {1, 3, 4, 5, 6} : Fields(command, variant)[k].v = Zero(0)
    /\ command.p[1].current = F32Div(10, 1)
    /\ enc = [tag |-> "ValueUnrepresentable", val |-> F32Div(10, 1)]
    /\ Written = Prom \o <<D0, D0, D0>>

\* two unrepresentable values, p2.current the first of them
C25_FirstOfTwo ==
    /\ pc = "sent" /\ command.name = "SetPresets"
    /\ enc.tag = "ValueUnrepresentable"
    /\ FirstOffending(command, variant) = 4
    /\ Offending(command, variant) = {4, 6}


----------------------------------------------------------------------------
(* C26: whether a value is encoded depends on the field's decimals and     *)
(* digits only, never on the variant's nominal maxima: SetVoltage and      *)
(* SetVoltageLimit are accepted for every value from 0 to 99.9 on all      *)
(* three variants (99.9 is sent as "VOLT999\r" to the 18 V model too);     *)
(* SetCurrent and SetCurrentLimit for every value from 0 to 99.9 on the    *)
(* BK1687B and BK1688B and from 0 to 9.99 on the BK1685B                   *)

\* 0 <= v <= top as f32 comparisons
UpTo(v, top) == v.k = "fin" /\ (v.s = 0 \/ v.m = 0) /\ ~MagLt(top, v)

TopCurrent(psu) ==
    IF psu.model = "BK1685B" THEN F32Div(999, 100) ELSE F32Div(999, 10)

C26_RangeByDescriptor ==
    (pc = "sent" /\ failAt = 0) =>
        /\ (/\ command.name \in {"SetVoltage", "SetVoltageLimit"}
            /\ UpTo(command.v, F32Div(999, 10))) => enc = CmdOk
        /\ (/\ command.name \in {"SetCurrent", "SetCurrentLimit"}
            /\ UpTo(command.v, TopCurrent(variant))) => enc = CmdOk
        /\ (command = SetVoltage(F32Div(999, 10)) /\ before = <<>>) =>
               sink = <<86, 79, 76, 84, 57, 57, 57, 13>>

\* 99.9 V accepted for the model whose nominal maximum is 18 V
C26_Witness ==
    /\ pc = "sent" /\ failAt = 0 /\ enc = CmdOk
    /\ variant = BK1688B /\ variant.nominal_max_voltage = 18
    /\ command = SetVoltage(F32Div(999, 10))
    /\ Written = <<86, 79, 76, 84, 57, 57, 57, 13>>

\* 9.99 A accepted for the BK1685B, whose nominal maximum is 5 A
C26_WitnessCurrent ==
    /\ pc = "sent" /\ failAt = 0 /\ enc = CmdOk
    /\ variant = BK1685B /\ variant.nominal_max_current = 5
    /\ command = SetCurrentLimit(F32Div(999, 100))
    /\ Written = <<83, 79, 67, 80, 57, 57, 57, 13>>


----------------------------------------------------------------------------
(* C27: a send_command call that fails with ValueUnrepresentable has       *)
(* written no '\r': the bytes it put into the sink, if any, are the        *)
(* function code and digits, never a terminated command                    *)

C27_NoTerminator ==
    (pc = "sent" /\ enc.tag = "ValueUnrepresentable") =>
        /\ SubSeq(sink, 1, Len(before)) = before
        /\ \A i \in 1..Len(Written) : Written[i] # CR
        /\ \A i \in 5..Len(Written) : IsDigit(Written[i])

\* SetPresets refused at its fourth field behind an earlier "GETS\r": the
\* call left "PROM" and nine digits, and no '\r'
C27_Witness ==
    /\ pc = "sent" /\ enc.tag = "ValueUnrepresentable"
    /\ command.name = "SetPresets"
    /\ before = <<71, 69, 84, 83, CR>>
    /\ Len(Written) = 13
    /\ \A i \in 1..13 : Written[i] # CR


----------------------------------------------------------------------------
(* C28: for each of the descriptors (1,3), (2,3), (0,1), (2,4) and every   *)
(* string of exactly `digits` ASCII digits, parse returns a value, that    *)
(* value is accepted by serialize_arg, and serialize_arg writes the string *)
(* again; so two different digit strings never parse to the same value     *)

DigitString == Len(raw) = fmt.digits /\ AllDigits(raw)

\* the digit string that follows raw in counting order
NextString == FormatZeroPad(DigitsValue(raw, 0) + 1, fmt.digits)

C28_ReverseRoundTrip ==
    /\ (pc = "parsed" /\ DigitString) =>
           /\ dec.tag = "Ok"
           /\ DigitsValue(raw, 0) + 1 < Pow10(fmt.digits) =>
                  /\ parse(fmt, NextString).tag = "Ok"
                  /\ F32Lt(dec.val, parse(fmt, NextString).val)
    /\ (pc = "reencoded" /\ DigitString) =>
           /\ enc = CmdOk
           /\ sink = raw

\* "9999" at (2,4): parsed to the f32 nearest 99.99 and written as "9999"
C28_Witness ==
    /\ pc = "reencoded" /\ fmt = ArgFormat(2, 4)
    /\ raw = <<D9, D9, D9, D9>>
    /\ dec = Ok(F32Div(9999, 100))
    /\ enc = CmdOk /\ sink = <<D9, D9, D9, D9>>

\* "+90" at (1,3) parses too, and comes back as "090"
C28_SignedComesBackPadded ==
    /\ pc = "reencoded" /\ fmt = ArgFormat(1, 3)
    /\ raw = <<PLUS, D9, D0>>
    /\ sink = <<D0, D9, D0>>


----------------------------------------------------------------------------
(* C29: on a source holding frames f1..fn one behind the other, each of    *)
(* the total length of its response type, and handing over every byte      *)
(* asked for, the k-th of n successive get_response calls returns what     *)
(* decoding fk alone returns, a value or MalformedResponse, whatever the   *)
(* earlier calls returned; the bytes left after it are the frames after    *)
(* fk, and none after the n-th                                             *)

FullFrames ==
    /\ session # NoSession
    /\ session.trail = <<>>
    /\ deliver = MaxDeliver /\ ioErr = "none"
    /\ \A k \in DOMAIN session.frames :
           Len(session.frames[k].bytes) = total_bytes(session.frames[k].R)

\* get_response on a source that holds the k-th frame and nothing else
Alone(k) ==
    classify_from(session.frames[k].R, variant, session.frames[k].bytes,
                  Min(total_bytes(session.frames[k].R),
                      Len(session.frames[k].bytes)))

FramesAfter(k) ==
    Flatten(SubSeq(session.frames, k + 1, Len(session.frames)))

Independent ==
    /\ Len(results) <= Len(session.frames)
    /\ \A k \in 1..Len(results) : results[k] = Alone(k)
    /\ source = FramesAfter(Len(results))

C29_Stateless ==
    (pc = "got" /\ FullFrames) =>
        /\ Independent
        /\ \A k \in 1..Len(results) :
               results[k].tag = "Ok" \/ results[k] = MalformedResponse

\* what holds instead: the calls that return are independent of each other,
\* and the one that does not return is the panic of a Presets frame
C29_StatelessOrPanics ==
    (pc = "got" /\ FullFrames) =>
        /\ Independent
        /\ \A k \in 1..Len(results) :
               \/ results[k].tag = "Ok"
               \/ results[k] = MalformedResponse
               \/ /\ results[k] = Panic
                  /\ k = Len(results)
                  /\ session.frames[k].R = "Presets"

\* a frame refused for its acknowledgement, then a value, then a frame refused
\* for its separator: three calls, the source empty after them
C29_RejectedThenDecoded ==
    /\ pc = "got" /\ FullFrames
    /\ Len(session.frames) = 3 /\ Len(results) = 3
    /\ results[1] = MalformedResponse
    /\ results[2] = Ok([t |-> "Voltage", v |-> F32Div(123, 10)])
    /\ results[3] = MalformedResponse
    /\ source = <<>>

\* the first call ended in the panic with a second frame still in the source
C29_PanicReached ==
    /\ pc = "got" /\ FullFrames
    /\ Len(session.frames) = 2 /\ results = <<Panic>>
    /\ source = OK


----------------------------------------------------------------------------
(* C30: for every Capabilities value c that get_response returns, the      *)
(* variant c.variant() names is fixed by the first three bytes of the      *)
(* frame alone, and max_current was decoded with that variant's            *)
(* current_decimals, or with 1 decimal when c.variant() names none         *)

\* Capabilities::variant
Capabilities_variant(c) == variant_for_max_voltage(c.max_voltage)

\* the tenths of a volt the first three bytes write ("+60" writes 60)
VoltTenths ==
    IF readBuf[1] = PLUS THEN DigitsValue(SubSeq(readBuf, 2, 3), 0) ELSE VVV

VariantByDigits ==
    CASE 600 <= VoltTenths /\ VoltTenths < 700 -> BK1685B
      [] 360 <= VoltTenths /\ VoltTenths < 460 -> BK1687B
      [] 180 <= VoltTenths /\ VoltTenths < 280 -> BK1688B
      [] OTHER -> NoVariant

C30_WitnessNone ==
    /\ CapabilitiesFramed
    /\ SubSeq(readBuf, 1, 6) = <<PLUS, 54, 48, 49, 48, 49>>
    /\ dec.tag = "Ok"
    /\ Capabilities_variant(dec.val) = NoVariant
    /\ dec.val.max_current = F32Div(101, 10)

====
